---- MODULE Spec2Model ----
(***************************************************************************)
(* A model of Red-Lavalink's client core: the node connection manager      *)
(* (lavalink/node.py), the node pool and get_node, the player manager and   *)
(* its players (lavalink/player_manager.py), the voice handshake            *)
(* (player_manager.py and player.py) and the host entry points              *)
(* (lavalink/lavalink.py).                                                  *)
(*                                                                          *)
(* Concurrency is asyncio's: one event loop, a FIFO ready queue (runq), and *)
(* tasks that give up control only at an await that really suspends.  The   *)
(* head of runq is the task that runs; a task that suspends on I/O moves to *)
(* blocked and re-enters runq at the tail when the I/O completes.  An await *)
(* on a socket write or close may or may not suspend, so both are allowed.  *)
(***************************************************************************)
EXTENDS Integers, Sequences, FiniteSets, Bags, TLC

(***************************************************************************)
(* Bounds of the model.                                                     *)
(***************************************************************************)
NumNodes == 2        \* nodes the host may initialize
NumGuilds == 2       \* guild ids
MaxSend == 2         \* host calls of Node.send()
MaxDrop == 1         \* close frames the remote side delivers
MaxLoss == 2         \* sockets a recovering node loses
MaxRetry == 2        \* OSError failures of handshake attempts while connects are retried
MaxFail == 1         \* handshake attempts that end in OSError
MaxReject == 1       \* handshake attempts the server rejects
MaxTimeout == 1      \* connect(timeout) deadlines that expire
MaxDisconnect == 2   \* host calls of Node.disconnect()
MaxClose == 1        \* host calls of lavalink.close()
MaxJoin == 2         \* host calls of lavalink.connect(channel)
MaxQuery == 1        \* host calls of get_node(guild_id, ignore_ready_status)
MaxVoice == 2        \* voice events the gateway delivers
MaxAdd == 2          \* host calls of Player.add() before a play()
MaxShuffled == 3     \* host calls of Player.add() before a force_shuffle()
MaxPlay == 1         \* host calls of Player.play()
MaxFlag == 1         \* host assignments to repeat / shuffle_bumped
MaxShuffle == 1      \* host calls of Player.force_shuffle()
MaxFrame == 2        \* text frames the remote side delivers
NumTracks == 2       \* track identifiers
MaxPosition == 2     \* positions a player update reports
MaxRegister == 3     \* host calls of register_*_listener / unregister_*_listener
MaxVolumeCalls == 2  \* host calls of Player.set_volume()
MaxSeek == 1         \* host calls of Player.seek()
MaxConnect == 1      \* host calls of Node.connect() on a node that exists

Nodes == 1..NumNodes
Guilds == 1..NumGuilds

(***************************************************************************)
(* Program constants.                                                       *)
(***************************************************************************)
\* guild_count = 1e10 in get_node: a start value above every node's player
\* count; 1e10 does not fit the model's 32-bit integers, so the model starts
\* from the largest power of ten that does
InitialGuildCount == 1000000000
ResumeTimeout == 60                \* resume_timeout default of Node.__init__

VARIABLES
    _nodes,                 \* node.py _nodes: the pool, a list of nodes
    made,                   \* number of Node objects constructed so far
    state,                  \* Node.state
    ready,                  \* Node.ready (asyncio.Event) is set
    _ws,                    \* Node._ws: 0 is None, else a socket id
    _is_shutdown,           \* Node._is_shutdown
    _resuming_configured,   \* Node._resuming_configured
    _queue,                 \* Node._queue
    _listener_task,         \* Node._listener_task: 0 is None, else a task id
    _state_handlers,        \* Node._state_handlers holds the manager's handler
    session_closed,         \* Node.session (aiohttp.ClientSession) is closed
    wsClosed,               \* per socket: ClientWebSocketResponse.closed
    _player_dict,           \* PlayerManager._player_dict, in insertion order
    pstate,                 \* per Player object: Player.state
    pnode,                  \* per Player object: the node of its manager
    pguild,                 \* per Player object: channel.guild.id
    voice_states,           \* PlayerManager.voice_states, per guild
    _session_id,            \* per Player object: Player._session_id, 0 is None
    _pending_server_update, \* per Player object: the pending payload, 0 is None
    deck,                   \* per Player object: queue, current (NoTrack is None),
                            \* position, _paused, repeat, shuffle_bumped,
                            \* _is_playing
    _listeners,             \* lavalink.py: the lists _event_listeners,
                            \* _update_listeners and _stats_listeners
    runq,                   \* the event loop's ready queue; its head runs
    blocked,                \* tasks suspended on I/O or on another task
    running,                \* the head of runq has not yielded since it ran
    nextId,                 \* next task / connect-call id
    budget,                 \* what the environment and the host may still do
    wire,                   \* history, per node: sends, writes and closes in
                            \* order; under 0 the events of the gateway
    calls                   \* history: finished host calls and their result

nodeVars == <<_nodes, made, state, ready, _ws, _is_shutdown, _resuming_configured,
              _queue, _listener_task, _state_handlers, session_closed, wsClosed>>
voiceVars == <<voice_states, _session_id, _pending_server_update>>
playerVars == <<_player_dict, pstate, pnode, pguild, voiceVars, deck, _listeners>>
loopVars == <<runq, blocked, running, nextId>>
histVars == <<budget, wire, calls>>
vars == <<nodeVars, playerVars, loopVars, histVars>>

(***************************************************************************)
(* Messages passed to Node.send().                                         *)
(***************************************************************************)
NoMsg == [op |-> "none", id |-> 0, key |-> 0, g |-> 0, sid |-> 0, ev |-> 0]
Data(i) == [NoMsg EXCEPT !.op = "data", !.id = i]
\* dict(op="configureResuming", key=str(self._resume_key)); key 0 is key=None
ConfigureResuming(k) == [NoMsg EXCEPT !.op = "configureResuming", !.key = k]
Destroy(g) == [NoMsg EXCEPT !.op = "destroy", !.g = g]
VoiceUpdate(g, sid, ev) ==
    [NoMsg EXCEPT !.op = "voiceUpdate", !.g = g, !.sid = sid, !.ev = ev]

(***************************************************************************)
(* Tasks.                                                                   *)
(***************************************************************************)
\* a text frame: g is its guildId (0: none), "malformed" is a body that is
\* not JSON
NoFrame == [op |-> "", type |-> "", reason |-> "", g |-> 0, position |-> 0]
NoTask == [kind |-> "none", n |-> 0, pc |-> "", id |-> 0, res |-> "", idx |-> 0,
           sock |-> 0, ps |-> <<>>, todo |-> <<>>, g |-> 0, ch |-> 0,
           timed |-> FALSE, via |-> "", m |-> NoMsg, p |-> 0, ret |-> "",
           st0 |-> "", cfg0 |-> FALSE, again |-> FALSE, me |-> TRUE,
           own |-> {}, pool |-> {}, f |-> NoFrame]
Task(kind, n, pc) == [NoTask EXCEPT !.kind = kind, !.n = n, !.pc = pc]

\* the history of the calls of Node.send() and of what reached each socket
\* a call of Node.send(): sock is 0 when the message went to the queue
SendEv(n, m, by) == [ev |-> "send", n |-> n, sock |-> 0, m |-> m, by |-> by,
                     st |-> state[n]]
\* a call of Node.connect() returns; sock is the socket its handshake made
ReturnEv(n, by, sock) == [ev |-> "connected", n |-> n, sock |-> sock, m |-> NoMsg,
                          by |-> by, st |-> "READY"]
WriteEv(n, s, m, by) == [ev |-> "write", n |-> n, sock |-> s, m |-> m, by |-> by,
                         st |-> state[n]]
CloseEv(n, s, by) == [ev |-> "close", n |-> n, sock |-> s, m |-> NoMsg, by |-> by,
                      st |-> state[n]]

\* Node.send's test: self._ws is None or self._ws.closed
SocketUnusable(n) == _ws[n] = 0 \/ wsClosed[n][_ws[n]]

\* Node.send(data): the queue and the wire after the call
send_queue(n, m) == IF SocketUnusable(n) THEN Append(_queue[n], m) ELSE _queue[n]
Log(n, evs) == [wire EXCEPT ![n] = @ \o evs]
send_events(n, m, by) ==
    IF SocketUnusable(n)
    THEN <<SendEv(n, m, by)>>
    ELSE <<[SendEv(n, m, by) EXCEPT !.sock = _ws[n]], WriteEv(n, _ws[n], m, by)>>
send_wire(n, m, by) == Log(n, send_events(n, m, by))

\* the modes in which a task leaves an await of Node.send(): a write may
\* suspend in send_json, an append to the queue never does
SendModes(n) == IF SocketUnusable(n) THEN {"cont"} ELSE {"cont", "suspend"}

\* handler(next_state, old_state), as update_state passes it to create_task
StateHandler(n, next, old) ==
    [Task("handler", n, "start") EXCEPT !.res = next, !.st0 = old]
\* an update_state that notifies without comparing the states
update_state_tasks_always(n, next) ==
    IF _state_handlers[n] THEN <<StateHandler(n, next, state[n])>> ELSE <<>>
\* Node.update_state(next_state): the tasks it creates, one per handler
update_state_tasks(n, next) ==
    IF next # state[n] /\ _state_handlers[n]
    THEN <<StateHandler(n, next, state[n])>>
    ELSE <<>>

(***************************************************************************)
(* The event loop: how the running task leaves its step.                   *)
(*   cont    - it goes on without yielding                                  *)
(*   suspend - it waits for I/O                                             *)
(*   end     - it has returned or raised                                    *)
(***************************************************************************)
Sched(t, mode, spawned) ==
    /\ runq' = (IF mode = "cont" THEN <<t>> ELSE <<>>) \o Tail(runq) \o spawned
    /\ blocked' = IF mode = "suspend" THEN blocked (+) SetToBag({t}) ELSE blocked
    /\ running' = (mode = "cont")

Cur == Head(runq)
At(kind, pc) == runq # <<>> /\ Cur.kind = kind /\ Cur.pc = pc

RemoveAt(s, i) == SubSeq(s, 1, i - 1) \o SubSeq(s, i + 1, Len(s))

Range(s) == {s[i] : i \in 1..Len(s)}

\* a finished call, for the history
Done(t, res) == [call |-> t.kind, via |-> t.via, n |-> t.n, g |-> t.g, res |-> res,
                 again |-> t.again, own |-> t.own]

(***************************************************************************)
(* The player map of a node: a dict, kept as a list of entries in          *)
(* insertion order.                                                         *)
(***************************************************************************)
guild_ids(n) == {_player_dict[n][i].g : i \in 1..Len(_player_dict[n])}
players(n) == [i \in 1..Len(_player_dict[n]) |-> _player_dict[n][i].p]
get_player(n, g) ==
    (CHOOSE e \in Range(_player_dict[n]) : e.g = g).p
DictSet(d, g, p) ==
    IF \E i \in 1..Len(d) : d[i].g = g
    THEN [i \in 1..Len(d) |-> IF d[i].g = g THEN [g |-> g, p |-> p] ELSE d[i]]
    ELSE Append(d, [g |-> g, p |-> p])
DictDel(d, g) == SelectSeq(d, LAMBDA e : e.g # g)

(***************************************************************************)
(* The initial state: no node constructed, nothing scheduled.              *)
(***************************************************************************)
\* voice_states[guild_id] = {}: no key is set (0 stands for an absent key)
NoVoice == [event |-> 0, session_id |-> 0]

\* the Player objects that can be made: one per connect() and per voice event
PlayerIds == 1..(MaxJoin + MaxVoice)
\* Player.__init__: queue = [], position = 0, current = None, _paused = False,
\* repeat = False, shuffle_bumped = True, _is_playing = False, _volume = 100;
\* channel is the channel of the constructor's call (0 before the Player is made)
NoTrack == [id |-> 0, bumped |-> FALSE, start |-> 0, seekable |-> FALSE, length |-> 0]
NewDeck == [queue |-> <<>>, current |-> NoTrack, position |-> 0, _paused |-> FALSE,
            repeat |-> FALSE, shuffle_bumped |-> TRUE, _is_playing |-> FALSE,
            _volume |-> 100, channel |-> 0]

\* what the host passes to register_*_listener: the library's own handlers, a
\* coroutine function of the host, a plain function of the host
Callbacks == {"_handle_event", "_handle_update", "callback", "function"}
iscoroutinefunction(coro) == coro # "function"
Registries == {"event", "update", "stats"}
\* _event_listeners = []; _update_listeners = []; _stats_listeners = []
NoListeners == [r \in Registries |-> <<>>]
\* a registration that appends without the membership test
register_again(listeners, coro) == Append(listeners, coro)
\* if coro not in listeners: listeners.append(coro)
register(listeners, coro) ==
    IF coro \in Range(listeners) THEN listeners ELSE Append(listeners, coro)
\* try: listeners.remove(coro) except ValueError: pass
unregister(listeners, coro) ==
    IF coro \notin Range(listeners) THEN listeners
    ELSE RemoveAt(listeners, CHOOSE i \in 1..Len(listeners) :
                                /\ listeners[i] = coro
                                /\ \A k \in 1..(i - 1) : listeners[k] # coro)

FullBudget == [init |-> NumNodes, send |-> MaxSend, drop |-> MaxDrop, fail |-> MaxFail,
               reject |-> MaxReject, timeout |-> MaxTimeout, disc |-> MaxDisconnect,
               close |-> MaxClose, join |-> MaxJoin, query |-> MaxQuery,
               voice |-> MaxVoice, add |-> MaxAdd, play |-> MaxPlay,
               flag |-> MaxFlag, shuffle |-> MaxShuffle, frame |-> MaxFrame,
               reg |-> MaxRegister, vol |-> MaxVolumeCalls, seek |-> MaxSeek,
               conn |-> MaxConnect]

InitWith(b) ==
    /\ _nodes = <<>>
    /\ made = 0
    /\ state = [n \in Nodes |-> "CONNECTING"]
    /\ ready = [n \in Nodes |-> FALSE]
    /\ _ws = [n \in Nodes |-> 0]
    /\ _is_shutdown = [n \in Nodes |-> FALSE]
    /\ _resuming_configured = [n \in Nodes |-> FALSE]
    /\ _queue = [n \in Nodes |-> <<>>]
    /\ _listener_task = [n \in Nodes |-> 0]
    /\ _state_handlers = [n \in Nodes |-> TRUE]
    /\ session_closed = [n \in Nodes |-> FALSE]
    /\ wsClosed = [n \in Nodes |-> <<>>]
    /\ _player_dict = [n \in Nodes |-> <<>>]
    /\ pstate = <<>>
    /\ pnode = <<>>
    /\ pguild = <<>>
    /\ voice_states = [n \in Nodes |-> [g \in Guilds |-> NoVoice]]
    /\ _session_id = <<>>
    /\ _pending_server_update = <<>>
    /\ deck = [p \in PlayerIds |-> NewDeck]
    /\ _listeners = NoListeners
    /\ runq = <<>>
    /\ blocked = EmptyBag
    /\ running = FALSE
    /\ nextId = [n \in Nodes |-> 1]
    /\ budget = b
    /\ wire = [n \in 0..NumNodes |-> <<>>]
    /\ calls = {}

Init == InitWith(FullBudget)

(***************************************************************************)
(* lavalink.initialize(): constructs the Node, then awaits connect().      *)
(***************************************************************************)
HostInitialize ==
    /\ ~running
    /\ budget.init > 0
    /\ budget' = [budget EXCEPT !.init = @ - 1]
    /\ runq' = Append(runq, Task("initialize", 0, "start"))
    /\ UNCHANGED <<nodeVars, playerVars, blocked, running, nextId, wire, calls>>

\* Node.__init__: if self not in _nodes: _nodes.append(self)
nodes_append(n) == IF n \in Range(_nodes) THEN _nodes ELSE Append(_nodes, n)

Initialize ==
    /\ At("initialize", "start")
    /\ made < NumNodes
    /\ LET n == made + 1 IN
        /\ made' = n
        /\ _nodes' = nodes_append(n)
        /\ Sched([Task("connect", n, "start") EXCEPT !.timed = TRUE, !.via = "initialize"],
                 "cont", <<>>)
    \* register_event_listener(_handle_event); register_update_listener(_handle_update)
    /\ _listeners' = [_listeners EXCEPT !.event = register(@, "_handle_event"),
                                        !.update = register(@, "_handle_update")]
    /\ UNCHANGED <<state, ready, _ws, _is_shutdown, _resuming_configured, _queue,
                   _listener_task, _state_handlers, session_closed, wsClosed,
                   _player_dict, pstate, pnode, pguild, voiceVars, deck, nextId,
                   histVars>>

(***************************************************************************)
(* Node.connect(timeout)                                                    *)
(***************************************************************************)
\* the host awaits node.connect() on a node that initialize() has made
HostConnect(n) ==
    /\ ~running
    /\ budget.conn > 0
    /\ n <= made
    /\ budget' = [budget EXCEPT !.conn = @ - 1]
    /\ runq' = Append(runq, [Task("connect", n, "start") EXCEPT !.via = "host"])
    /\ UNCHANGED <<nodeVars, playerVars, blocked, running, nextId, wire, calls>>

\* self._is_shutdown = False; as_completed([self._multi_try_connect(uri)])
ConnectStart ==
    /\ At("connect", "start")
    /\ LET n == Cur.n IN
        /\ _is_shutdown' = [_is_shutdown EXCEPT ![n] = FALSE]
        /\ Sched([Cur EXCEPT !.pc = "await_mtc", !.id = nextId[n]], "suspend",
                 <<[Task("mtc", n, "loop") EXCEPT !.id = nextId[n]]>>)
        /\ nextId' = [nextId EXCEPT ![n] = @ + 1]
    /\ UNCHANGED <<_nodes, made, state, ready, _ws, _resuming_configured, _queue,
                   _listener_task, _state_handlers, session_closed, wsClosed,
                   playerVars, histVars>>

\* the connect() call that awaits the attempt cid, and its waking
IsWaiter(u, n, cid) ==
    u.kind = "connect" /\ u.pc = "await_mtc" /\ u.n = n /\ u.id = cid
Wake(n, cid, res) ==
    LET w == {u \in BagToSet(blocked) : IsWaiter(u, n, cid)} IN
    /\ runq' = Tail(runq) \o
               (IF w = {} THEN <<>>
                ELSE <<[(CHOOSE u \in w : TRUE) EXCEPT !.pc = "after_mtc", !.res = res]>>)
    /\ blocked' = blocked (-) SetToBag(w)
    /\ running' = FALSE

\* a loop that is left after the first failed attempt
multi_try_again_first(n) ==
    _is_shutdown[n] = FALSE /\ SocketUnusable(n) /\ Cur.res = ""
\* while self._is_shutdown is False and (self._ws is None or self._ws.closed)
multi_try_again(n) == _is_shutdown[n] = FALSE /\ SocketUnusable(n)

\* uri = "ws://{}:{}".format(self.host, self.port): one uri per node
uri(n) == n
\* the node's resume key: lavalink.initialize() passes none, and __init__
\* then generates one (a _Key object, which is true); 0 is an empty key
resume_key(n) == n
\* _get_connect_headers(): the names of the headers
_get_connect_headers(key) ==
    {"Authorization", "User-Id", "Num-Shards"}
        \cup (IF key # 0 THEN {"Resume-Key"} ELSE {})

\* the history of session.ws_connect(url=uri, headers=self.headers): the k-th
\* call made by the attempt cid of node n; res is "" until it returns or raises
Attempts(n, cid) == {c \in calls : c.call = "ws_connect" /\ c.n = n /\ c.id = cid}
WsConnect(t) ==
    [call |-> "ws_connect", via |-> t.via, n |-> t.n, g |-> 0, res |-> "",
     again |-> FALSE, own |-> {}, id |-> t.id,
     k |-> Cardinality(Attempts(t.n, t.id)) + 1,
     uri |-> uri(t.n), headers |-> _get_connect_headers(resume_key(t.n))]

MtcLoop ==
    /\ At("mtc", "loop")
    /\ LET n == Cur.n IN
        IF multi_try_again(n)
        THEN IF session_closed[n]
             THEN /\ Wake(Cur.n, Cur.id, "exc")  \* ws_connect on a closed session raises
                  /\ UNCHANGED calls
             ELSE /\ Sched([Cur EXCEPT !.pc = "ws_connect"], "suspend", <<>>)
                  /\ calls' = calls \cup {WsConnect(Cur)}
        ELSE /\ Wake(Cur.n, Cur.id, "none")      \* the loop is left: returns None
             /\ UNCHANGED calls
    /\ UNCHANGED <<nodeVars, playerVars, nextId, budget, wire>>

\* ws_connect has returned or raised
MtcWsConnect ==
    /\ At("mtc", "ws_connect")
    /\ LET n == Cur.n IN
        CASE Cur.res = "ok" ->
               /\ wsClosed' = [wsClosed EXCEPT ![n] = Append(@, FALSE)]
               /\ _ws' = [_ws EXCEPT ![n] = Len(wsClosed[n]) + 1]
               /\ Wake(Cur.n, Cur.id, "ws")
          [] Cur.res = "oserror" ->
               /\ Sched([Cur EXCEPT !.pc = "sleep"], "suspend", <<>>)
               /\ UNCHANGED <<_ws, wsClosed>>
          [] OTHER ->                       \* WSServerHandshakeError: return None
               /\ Wake(Cur.n, Cur.id, "none")
               /\ UNCHANGED <<_ws, wsClosed>>
    /\ calls' = {IF c.call = "ws_connect" /\ c.n = Cur.n /\ c.id = Cur.id /\ c.res = ""
                 THEN [c EXCEPT !.res = Cur.res] ELSE c : c \in calls}
    /\ UNCHANGED <<_nodes, made, state, ready, _is_shutdown, _resuming_configured,
                   _queue, _listener_task, _state_handlers, session_closed,
                   playerVars, nextId, budget, wire>>

\* asyncio.sleep(delay) is over
MtcSleep ==
    /\ At("mtc", "sleep")
    /\ Sched([Cur EXCEPT !.pc = "loop"], "cont", <<>>)
    /\ UNCHANGED <<nodeVars, playerVars, nextId, histVars>>

IsListener(u, n, id) == u.kind = "listener" /\ u.n = n /\ u.id = id

\* a cancel() that leaves the suspended task alone
WithoutListener_kept(n, id) == blocked
\* task.cancel() on a suspended task: it leaves the tasks waiting for I/O
WithoutListener(n, id) ==
    blocked (-) SetToBag({u \in BagToSet(blocked) : IsListener(u, n, id)})

\* a connect() that creates the configure task twice
connect_spawns_twice(n, id) ==
    <<[Task("listener", n, "loop") EXCEPT !.id = id]>> \o
    (IF ~_resuming_configured[n]
     THEN <<Task("configure", n, "start"), Task("configure", n, "start")>> ELSE <<>>)

\* the tasks connect() creates once the handshake is done (lines 213-218)
connect_spawns(n, id) ==
    <<[Task("listener", n, "loop") EXCEPT !.id = id]>> \o
    (IF ~_resuming_configured[n] THEN <<Task("configure", n, "start")>> ELSE <<>>)

ConnectAfter ==
    /\ At("connect", "after_mtc")
    /\ LET n == Cur.n
           old == _listener_task[n] IN
        IF Cur.res = "ws"
        THEN /\ runq' = <<[Cur EXCEPT !.pc = "flush", !.idx = 0, !.sock = _ws[n]]>> \o
                        SelectSeq(Tail(runq), LAMBDA u : ~IsListener(u, n, old)) \o
                        connect_spawns(n, nextId[n])
             /\ blocked' = WithoutListener(n, old)
             /\ running' = TRUE
             /\ _listener_task' = [_listener_task EXCEPT ![n] = nextId[n]]
             /\ nextId' = [nextId EXCEPT ![n] = @ + 1]
             /\ UNCHANGED calls
        ELSE /\ Sched(Cur, "end", <<>>)     \* raise asyncio.TimeoutError
             /\ calls' = calls \cup {Done(Cur, "TimeoutError")}
             /\ UNCHANGED <<_listener_task, nextId>>
    /\ UNCHANGED <<_nodes, made, state, ready, _ws, _is_shutdown, _resuming_configured,
                   _queue, _state_handlers, session_closed, wsClosed,
                   playerVars, budget, wire>>

\* for data in self._queue: await self.send(data)  -- one iteration, or the end
ConnectFlush ==
    /\ At("connect", "flush")
    /\ LET n == Cur.n
           i == Cur.idx IN
        IF i < Len(_queue[n])
        THEN LET m == _queue[n][i + 1] IN
             /\ _queue' = [_queue EXCEPT ![n] = send_queue(n, m)]
             /\ wire' = send_wire(n, m, "flush")
             /\ IF SocketUnusable(n)
                \* send() appends to the list being iterated: the loop never ends
                THEN Sched([Cur EXCEPT !.pc = "spin"], "cont", <<>>)
                ELSE \E mode \in SendModes(n) :
                        Sched([Cur EXCEPT !.idx = i + 1], mode, <<>>)
             /\ UNCHANGED <<state, ready, calls>>
        ELSE /\ _queue' = [_queue EXCEPT ![n] = <<>>]
             /\ ready' = [ready EXCEPT ![n] = TRUE]
             /\ state' = [state EXCEPT ![n] = "READY"]
             /\ Sched(Cur, "end", update_state_tasks(n, "READY"))
             /\ calls' = calls \cup {Done(Cur, "ok")}
             /\ wire' = Log(n, <<ReturnEv(n, Cur.via, Cur.sock)>>)
    /\ UNCHANGED <<_nodes, made, _ws, _is_shutdown, _resuming_configured,
                   _listener_task, _state_handlers, session_closed, wsClosed,
                   playerVars, nextId, budget>>

(***************************************************************************)
(* Node._configure_resume()                                                 *)
(***************************************************************************)
\* if self._resume_key and self._resume_timeout and self._resume_timeout > 0
resume_wanted(n) == ResumeTimeout > 0

ConfigureStart ==
    /\ At("configure", "start")
    /\ LET n == Cur.n IN
        IF _resuming_configured[n] \/ ~resume_wanted(n)
        THEN /\ Sched(Cur, "end", <<>>)
             /\ UNCHANGED <<_queue, wire>>
        ELSE /\ _queue' = [_queue EXCEPT ![n] = send_queue(n, ConfigureResuming(n))]
             /\ wire' = send_wire(n, ConfigureResuming(n), "configure")
             /\ \E mode \in SendModes(n) : Sched([Cur EXCEPT !.pc = "set"], mode, <<>>)
    /\ UNCHANGED <<_nodes, made, state, ready, _ws, _is_shutdown, _resuming_configured,
                   _listener_task, _state_handlers, session_closed, wsClosed,
                   playerVars, nextId, budget, calls>>

ConfigureSet ==
    /\ At("configure", "set")
    /\ _resuming_configured' = [_resuming_configured EXCEPT ![Cur.n] = TRUE]
    /\ Sched(Cur, "end", <<>>)
    /\ UNCHANGED <<_nodes, made, state, ready, _ws, _is_shutdown, _queue,
                   _listener_task, _state_handlers, session_closed, wsClosed,
                   playerVars, nextId, histVars>>

(***************************************************************************)
(* Node.listener()                                                          *)
(***************************************************************************)
\* while self._is_shutdown is False: msg = await self._ws.receive()
ListenerLoop ==
    /\ At("listener", "loop")
    /\ LET n == Cur.n IN
        IF _is_shutdown[n] = FALSE
        THEN Sched([Cur EXCEPT !.pc = "receive", !.sock = _ws[n]], "suspend", <<>>)
        ELSE Sched(Cur, "end", <<Task("reconnect", n, "start")>>)
    /\ UNCHANGED <<nodeVars, playerVars, nextId, histVars>>

\* the tasks the listener creates when it gets a close frame: with resuming
\* configured it returns at once, otherwise it breaks out of the loop
\* a listener whose break on a close frame ends the task without a reconnect
listener_close_spawns_resuming(n) ==
    IF _resuming_configured[n]
    THEN <<Task("reconnect", n, "start")>>
    ELSE <<>>
listener_close_spawns(n) ==
    IF _resuming_configured[n]
    THEN <<Task("reconnect", n, "start")>>
    ELSE <<Task("reconnect", n, "start")>>
\* elif msg.type == aiohttp.WSMsgType.ERROR: break, then the code after the loop
listener_error_spawns(n) == <<Task("reconnect", n, "start")>>

\* receive() has returned a frame whose type is in self._closers, or an
\* ERROR frame
ListenerClosed ==
    /\ At("listener", "receive")
    /\ Cur.res \in {"CLOSE", "ERROR"}
    /\ wsClosed' = [wsClosed EXCEPT ![Cur.n][Cur.sock] = TRUE]
    /\ wire' = IF wsClosed[Cur.n][Cur.sock] THEN wire
               ELSE Log(Cur.n, <<CloseEv(Cur.n, Cur.sock, "remote")>>)
    /\ Sched(Cur, "end", IF Cur.res = "CLOSE" THEN listener_close_spawns(Cur.n)
                          ELSE listener_error_spawns(Cur.n))
    /\ UNCHANGED <<_nodes, made, state, ready, _ws, _is_shutdown, _resuming_configured,
                   _queue, _listener_task, _state_handlers, session_closed,
                   playerVars, nextId, budget, calls>>

(***************************************************************************)
(* Node._reconnect()                                                        *)
(***************************************************************************)
\* if self.state != NodeState.CONNECTING: self.update_state(RECONNECTING)
reconnect_state(n) == IF state[n] # "CONNECTING" THEN "RECONNECTING" ELSE state[n]

Reconnect ==
    /\ At("reconnect", "start")
    /\ LET n == Cur.n IN
        /\ ready' = [ready EXCEPT ![n] = FALSE]
        /\ IF _is_shutdown[n] = TRUE
           THEN /\ Sched(Cur, "end", <<>>)
                /\ UNCHANGED state
           ELSE /\ state' = [state EXCEPT ![n] = reconnect_state(n)]
                /\ runq' = <<[Task("connect", n, "start") EXCEPT !.via = "reconnect"]>>
                           \o Tail(runq) \o update_state_tasks(n, reconnect_state(n))
                /\ UNCHANGED blocked
                /\ running' = TRUE
    /\ UNCHANGED <<_nodes, made, _ws, _is_shutdown, _resuming_configured, _queue,
                   _listener_task, _state_handlers, session_closed, wsClosed,
                   playerVars, nextId, histVars>>

(***************************************************************************)
(* Node.send(data), called by the host (a player command)                  *)
(***************************************************************************)
HostSend(n) ==
    /\ ~running
    /\ budget.send > 0
    /\ n <= made
    /\ budget' = [budget EXCEPT !.send = @ - 1]
    /\ runq' = Append(runq, [Task("send", n, "start") EXCEPT
                                !.m = Data(MaxSend - budget.send + 1)])
    /\ UNCHANGED <<nodeVars, playerVars, blocked, running, nextId, wire, calls>>

Send ==
    /\ At("send", "start")
    /\ _queue' = [_queue EXCEPT ![Cur.n] = send_queue(Cur.n, Cur.m)]
    /\ wire' = send_wire(Cur.n, Cur.m, "send")
    /\ Sched(Cur, "end", <<>>)
    /\ UNCHANGED <<_nodes, made, state, ready, _ws, _is_shutdown, _resuming_configured,
                   _listener_task, _state_handlers, session_closed, wsClosed,
                   playerVars, nextId, budget, calls>>

(***************************************************************************)
(* PlayerManager.node_state_handler(next_state, old_state)                 *)
(***************************************************************************)
handler_player_state(next) ==
    CASE next = "READY" -> "READY"
      [] next = "DISCONNECTING" -> "DISCONNECTING"
      [] OTHER -> "NODE_BUSY"

\* update_player_states(state): for p in self.players: await p.update_state(state)
update_player_states(n, s) ==
    [p \in 1..Len(pstate) |-> IF p \in Range(players(n)) THEN s ELSE pstate[p]]

NodeStateHandler ==
    /\ At("handler", "start")
    /\ pstate' = update_player_states(Cur.n, handler_player_state(Cur.res))
    /\ Sched(Cur, "end", <<>>)
    /\ UNCHANGED <<nodeVars, _player_dict, pnode, pguild, voiceVars, deck, _listeners, nextId, histVars>>

(***************************************************************************)
(* Player.disconnect(requested=False), as a part of the task that calls it *)
(* (fields p: the player, ret: where the caller goes on)                    *)
(***************************************************************************)
\* if self.state == PlayerState.DISCONNECTING: return
player_disconnect_skips(p) == pstate[p] = "DISCONNECTING"

PlayerDisconnect ==
    /\ runq # <<>> /\ Cur.pc = "p_begin"
    /\ LET p == Cur.p IN
        IF player_disconnect_skips(p)
        THEN /\ Sched([Cur EXCEPT !.pc = Cur.ret], "cont", <<>>)
             /\ UNCHANGED pstate
        ELSE /\ pstate' = [pstate EXCEPT ![p] = "DISCONNECTING"]
             \* await voice_ws.voice_state(guild_id, None), if that socket is open
             /\ \E mode \in {"cont", "suspend"} :
                    Sched([Cur EXCEPT !.pc = "p_destroy"], mode, <<>>)
    /\ UNCHANGED <<nodeVars, _player_dict, pnode, pguild, voiceVars, deck, _listeners, nextId, histVars>>

\* await self.node.destroy_guild(guild_id)
PlayerDestroy ==
    /\ runq # <<>> /\ Cur.pc = "p_destroy"
    /\ LET n == pnode[Cur.p]
           m == Destroy(pguild[Cur.p]) IN
        /\ _queue' = [_queue EXCEPT ![n] = send_queue(n, m)]
        /\ wire' = send_wire(n, m, "destroy")
        /\ \E mode \in SendModes(n) : Sched([Cur EXCEPT !.pc = "p_close"], mode, <<>>)
    /\ UNCHANGED <<_nodes, made, state, ready, _ws, _is_shutdown, _resuming_configured,
                   _listener_task, _state_handlers, session_closed, wsClosed,
                   playerVars, nextId, budget, calls>>

\* await self.close(): the REST session
PlayerClose ==
    /\ runq # <<>> /\ Cur.pc = "p_close"
    /\ \E mode \in {"cont", "suspend"} : Sched([Cur EXCEPT !.pc = "p_remove"], mode, <<>>)
    /\ UNCHANGED <<nodeVars, playerVars, nextId, histVars>>

\* PlayerManager.remove_player(player)
remove_player(n, p) ==
    IF pstate[p] # "DISCONNECTING"
    THEN _player_dict[n]
    ELSE DictDel(_player_dict[n], pguild[p])

PlayerRemove ==
    /\ runq # <<>> /\ Cur.pc = "p_remove"
    /\ LET n == pnode[Cur.p] IN
        _player_dict' = [_player_dict EXCEPT ![n] = remove_player(n, Cur.p)]
    /\ Sched([Cur EXCEPT !.pc = Cur.ret], "cont", <<>>)
    /\ UNCHANGED <<nodeVars, pstate, pnode, pguild, voiceVars, deck, _listeners, nextId, histVars>>

(***************************************************************************)
(* Node.disconnect()                                                        *)
(***************************************************************************)
HostDisconnect(n) ==
    /\ ~running
    /\ budget.disc > 0
    /\ n <= made
    /\ budget' = [budget EXCEPT !.disc = @ - 1]
    /\ runq' = Append(runq, [Task("disconnect", n, "start") EXCEPT !.via = "host"])
    /\ UNCHANGED <<nodeVars, playerVars, blocked, running, nextId, wire, calls>>

\* a disconnect() call on this node has returned
Disconnected(n) ==
    \E c \in calls : c.call = "disconnect" /\ c.n = n /\ c.res = "ok"

\* a disconnect() that never tells the server to drop the resume key
disconnect_unconfigures_never(n) == FALSE

\* if self._resuming_configured: (line 397)
disconnect_unconfigures(n) == _resuming_configured[n]

\* self._is_shutdown = True; self.ready.clear(); self.update_state(DISCONNECTING)
\* if self._resuming_configured: await self.send(dict(op=..., key=None))
DisconnectStart ==
    /\ At("disconnect", "start")
    /\ LET n == Cur.n
           t == [Cur EXCEPT !.pc = "d1", !.st0 = state[n],
                            !.cfg0 = _resuming_configured[n],
                            !.sock = IF SocketUnusable(n) THEN 0 ELSE _ws[n],
                            !.again = Disconnected(n),
                            !.own = Range(players(n))] IN
        /\ _is_shutdown' = [_is_shutdown EXCEPT ![n] = TRUE]
        /\ ready' = [ready EXCEPT ![n] = FALSE]
        /\ state' = [state EXCEPT ![n] = "DISCONNECTING"]
        /\ IF disconnect_unconfigures(n)
           THEN /\ _queue' = [_queue EXCEPT ![n] = send_queue(n, ConfigureResuming(0))]
                /\ LET evs == send_events(n, ConfigureResuming(0), "disconnect") IN
                     wire' = Log(n, [i \in 1..Len(evs) |->
                                       [evs[i] EXCEPT !.st = "DISCONNECTING"]])
                /\ \E mode \in SendModes(n) :
                       Sched(t, mode, update_state_tasks(n, "DISCONNECTING"))
           ELSE /\ Sched(t, "cont", update_state_tasks(n, "DISCONNECTING"))
                /\ UNCHANGED <<_queue, wire>>
    /\ UNCHANGED <<_nodes, made, _ws, _resuming_configured, _listener_task,
                   _state_handlers, session_closed, wsClosed,
                   playerVars, nextId, budget, calls>>

\* self._resuming_configured = False; await self.player_manager.disconnect()
DisconnectPlayers ==
    /\ At("disconnect", "d1")
    /\ _resuming_configured' = [_resuming_configured EXCEPT ![Cur.n] = FALSE]
    /\ Sched([Cur EXCEPT !.pc = "players", !.ps = players(Cur.n)], "cont", <<>>)
    /\ UNCHANGED <<_nodes, made, state, ready, _ws, _is_shutdown, _queue,
                   _listener_task, _state_handlers, session_closed, wsClosed,
                   playerVars, nextId, histVars>>

\* for p in tuple(self.players): await p.disconnect(requested=False)
DisconnectNextPlayer ==
    /\ At("disconnect", "players")
    /\ IF Cur.ps = <<>>
       THEN Sched([Cur EXCEPT !.pc = "close_ws"], "cont", <<>>)
       ELSE Sched([Cur EXCEPT !.pc = "p_begin", !.p = Head(Cur.ps),
                              !.ps = Tail(Cur.ps), !.ret = "players"], "cont", <<>>)
    /\ UNCHANGED <<nodeVars, playerVars, nextId, histVars>>

\* if self._ws is not None and not self._ws.closed: await self._ws.close()
DisconnectCloseWs ==
    /\ At("disconnect", "close_ws")
    /\ LET n == Cur.n IN
        IF SocketUnusable(n)
        THEN /\ Sched([Cur EXCEPT !.pc = "cancel"], "cont", <<>>)
             /\ UNCHANGED <<wsClosed, wire>>
        ELSE /\ wsClosed' = [wsClosed EXCEPT ![n][_ws[n]] = TRUE]
             /\ wire' = Log(n, <<CloseEv(n, _ws[n], "disconnect")>>)
             /\ \E mode \in {"cont", "suspend"} :
                    Sched([Cur EXCEPT !.pc = "cancel"], mode, <<>>)
    /\ UNCHANGED <<_nodes, made, state, ready, _ws, _is_shutdown, _resuming_configured,
                   _queue, _listener_task, _state_handlers, session_closed,
                   playerVars, nextId, budget, calls>>

\* self._listener_task.cancel(); await self.session.close()
DisconnectCancel ==
    /\ At("disconnect", "cancel")
    /\ LET n == Cur.n
           old == _listener_task[n] IN
        /\ session_closed' = [session_closed EXCEPT ![n] = TRUE]
        /\ \E mode \in {"cont", "suspend"} :
            /\ runq' = (IF mode = "cont" THEN <<[Cur EXCEPT !.pc = "final"]>> ELSE <<>>)
                       \o SelectSeq(Tail(runq), LAMBDA u : ~IsListener(u, n, old))
            /\ blocked' = IF mode = "suspend"
                          THEN WithoutListener(n, old) (+)
                               SetToBag({[Cur EXCEPT !.pc = "final"]})
                          ELSE WithoutListener(n, old)
            /\ running' = (mode = "cont")
    /\ UNCHANGED <<_nodes, made, state, ready, _ws, _is_shutdown, _resuming_configured,
                   _queue, _listener_task, _state_handlers, wsClosed,
                   playerVars, nextId, histVars>>

\* _nodes.remove(self): the list without its first occurrence of n
nodes_remove(n) ==
    LET i == CHOOSE j \in 1..Len(_nodes) :
                 _nodes[j] = n /\ \A k \in 1..(j - 1) : _nodes[k] # n
    IN RemoveAt(_nodes, i)

\* self._state_handlers = []; _nodes.remove(self)
\* lavalink.close() goes on with the next node of its copy of the pool
\* the close() call that the disconnect() t ends, with the pool it copied
ClosedBy(t) == [Task("close", 0, "") EXCEPT !.own = t.pool]

DisconnectFinal ==
    /\ At("disconnect", "final")
    /\ LET n == Cur.n IN
        /\ _state_handlers' = [_state_handlers EXCEPT ![n] = FALSE]
        /\ IF n \in Range(_nodes)
           THEN /\ _nodes' = nodes_remove(n)
                /\ IF Cur.via = "close" /\ Cur.todo # <<>>
                   THEN /\ Sched([Task("disconnect", Head(Cur.todo), "start") EXCEPT
                                     !.via = "close", !.todo = Tail(Cur.todo),
                                     !.pool = Cur.pool],
                                 "cont", <<>>)
                        /\ calls' = calls \cup {Done(Cur, "ok")}
                   ELSE /\ Sched(Cur, "end", <<>>)
                        /\ calls' = calls \cup {Done(Cur, "ok")} \cup
                                    (IF Cur.via = "close"
                                     THEN {Done(ClosedBy(Cur), "ok")} ELSE {})
           ELSE \* list.remove(x): x not in list
                /\ UNCHANGED _nodes
                /\ Sched(Cur, "end", <<>>)
                /\ calls' = calls \cup {Done(Cur, "ValueError")} \cup
                            (IF Cur.via = "close"
                             THEN {Done(ClosedBy(Cur), "ValueError")} ELSE {})
    /\ UNCHANGED <<made, state, ready, _ws, _is_shutdown, _resuming_configured, _queue,
                   _listener_task, session_closed, wsClosed,
                   playerVars, nextId, budget, wire>>

(***************************************************************************)
(* lavalink.close() -> node.disconnect(): for node in _nodes.copy()        *)
(***************************************************************************)
HostClose ==
    /\ ~running
    /\ budget.close > 0
    /\ budget' = [budget EXCEPT !.close = @ - 1]
    /\ runq' = Append(runq, Task("close", 0, "start"))
    /\ UNCHANGED <<nodeVars, playerVars, blocked, running, nextId, wire, calls>>

Close ==
    /\ At("close", "start")
    /\ IF _nodes = <<>>
       THEN /\ Sched(Cur, "end", <<>>)
            /\ calls' = calls \cup {Done(Cur, "ok")}
       ELSE /\ Sched([Task("disconnect", Head(_nodes), "start") EXCEPT
                         !.via = "close", !.todo = Tail(_nodes),
                         !.pool = Range(_nodes)], "cont", <<>>)
            /\ UNCHANGED calls
    \* unregister_event_listener(_handle_event); unregister_update_listener(_handle_update)
    /\ _listeners' = [_listeners EXCEPT !.event = unregister(@, "_handle_event"),
                                        !.update = unregister(@, "_handle_update")]
    /\ UNCHANGED <<nodeVars, _player_dict, pstate, pnode, pguild, voiceVars, deck,
                   nextId, budget, wire>>

(***************************************************************************)
(* node.get_node(guild_id, ignore_ready_status)                             *)
(***************************************************************************)
\* a scan that skips no node
get_node_skips_never(n, ign) == FALSE
\* if ignore_ready_status is False and not node.ready.is_set(): continue
get_node_skips(n, ign) == ign = FALSE /\ ~ready[n]

\* the for loop from the i-th node of the pool on, with the running
\* guild_count and least_used; 0 stands for the IndexError at the end
RECURSIVE get_node_from(_, _, _, _, _)
get_node_from(i, g, ign, guild_count, least_used) ==
    IF i > Len(_nodes) THEN least_used
    ELSE LET n == _nodes[i]
             len == Cardinality(guild_ids(n)) IN
         IF get_node_skips(n, ign)
         THEN get_node_from(i + 1, g, ign, guild_count, least_used)
         ELSE IF g \in guild_ids(n) THEN n
         ELSE IF len < guild_count
              THEN get_node_from(i + 1, g, ign, len, n)
              ELSE get_node_from(i + 1, g, ign, guild_count, least_used)

get_node(g, ign) == get_node_from(1, g, ign, InitialGuildCount, 0)

\* the nodes whose player map holds the guild
owners(g) == {n \in Nodes : g \in guild_ids(n)}

HostGetNode(g, ign) ==
    /\ ~running
    /\ budget.query > 0
    /\ budget' = [budget EXCEPT !.query = @ - 1]
    /\ calls' = calls \cup
         {Done([Task("get_node", get_node(g, ign), "") EXCEPT
                  !.g = g, !.via = IF ign THEN "ignore_ready" ELSE "ready_only",
                  !.own = owners(g)],
               IF get_node(g, ign) = 0 THEN "IndexError" ELSE "ok")}
    /\ UNCHANGED <<nodeVars, playerVars, loopVars, wire>>

(***************************************************************************)
(* lavalink.connect(channel) -> PlayerManager.create_player(channel)       *)
(***************************************************************************)
HostJoin(g, ch) ==
    /\ ~running
    /\ budget.join > 0
    /\ budget' = [budget EXCEPT !.join = @ - 1]
    /\ runq' = Append(runq, [Task("lconnect", 0, "start") EXCEPT !.g = g, !.ch = ch])
    /\ UNCHANGED <<nodeVars, playerVars, blocked, running, nextId, wire, calls>>

\* refresh_player_state(player): the player state that goes with the node's
refresh_player_state(n) ==
    CASE state[n] = "READY" -> "READY"
      [] state[n] = "DISCONNECTING" -> "DISCONNECTING"
      [] OTHER -> "NODE_BUSY"

\* Player.move_to(channel): self.channel = channel (the channel is one of
\* the player's guild: it is looked up by channel.guild.id)
move_to(channel, to) == to

\* node_ = node.get_node(channel.guild.id); then create_player up to its
\* first await: p.move_to(channel) or Player(self, channel); p.connect()
LavalinkConnect ==
    /\ At("lconnect", "start")
    /\ LET g == Cur.g
           n == get_node(g, FALSE) IN
        IF n = 0
        THEN /\ Sched(Cur, "end", <<>>)
             /\ calls' = calls \cup {Done(Cur, "IndexError")}
             /\ UNCHANGED <<pstate, pnode, pguild, _session_id, _pending_server_update,
                            deck>>
        ELSE IF g \in guild_ids(n)
        THEN /\ deck' = [deck EXCEPT ![get_player(n, g)].channel =
                                        move_to(@, Cur.ch)]
             /\ \E mode \in {"cont", "suspend"} :
                    Sched([Cur EXCEPT !.pc = "created", !.n = n,
                                      !.p = get_player(n, g)], mode, <<>>)
             /\ UNCHANGED <<pstate, pnode, pguild, _session_id,
                            _pending_server_update, calls>>
        ELSE /\ pstate' = Append(pstate, "CONNECTING")
             /\ pnode' = Append(pnode, n)
             /\ pguild' = Append(pguild, g)
             /\ _session_id' = Append(_session_id, 0)
             /\ _pending_server_update' = Append(_pending_server_update, 0)
             /\ deck' = [deck EXCEPT ![Len(pstate) + 1].channel = Cur.ch]
             /\ \E mode \in {"cont", "suspend"} :
                    Sched([Cur EXCEPT !.pc = "insert", !.n = n,
                                      !.p = Len(pstate) + 1], mode, <<>>)
             /\ UNCHANGED calls
    /\ UNCHANGED <<nodeVars, _player_dict, voice_states, _listeners, nextId, budget, wire>>

\* self._player_dict[channel.guild.id] = p; await self.refresh_player_state(p)
CreatePlayerInsert ==
    /\ At("lconnect", "insert")
    /\ _player_dict' = [_player_dict EXCEPT ![Cur.n] = DictSet(@, Cur.g, Cur.p)]
    /\ pstate' = [pstate EXCEPT ![Cur.p] = refresh_player_state(Cur.n)]
    /\ Sched(Cur, "end", <<>>)
    /\ calls' = calls \cup {Done(Cur, "ok")}
    /\ UNCHANGED <<nodeVars, pnode, pguild, voiceVars, deck, _listeners, nextId, budget, wire>>

\* return p, after move_to
CreatePlayerMoved ==
    /\ At("lconnect", "created")
    /\ Sched(Cur, "end", <<>>)
    /\ calls' = calls \cup {Done(Cur, "ok")}
    /\ UNCHANGED <<nodeVars, playerVars, nextId, budget, wire>>

(***************************************************************************)
(* Voice events of the gateway.  The k-th event delivered carries the      *)
(* payload (or the session id) k.  Channels: 0 is None, ChannelFound is a  *)
(* channel the finder resolves, ChannelLost one it does not.               *)
(***************************************************************************)
VoiceKinds == {"VOICE_SERVER_UPDATE", "VOICE_STATE_UPDATE"}
ChannelFound == 1
ChannelLost == 2
Channels == {0, ChannelFound, ChannelLost}
\* a second voice channel of the same guild, for Player.move_to
ChannelMoved == 3
JoinChannels == {ChannelFound, ChannelMoved}

\* data["d"]["guild_id"] is a string, the keys of _player_dict are ints: a
\* string equals no int (strings are the negative numbers here)
str_guild_id(g) == 0 - g

\* the history of a voice event: n is the node whose manager, or whose
\* player, gets it (0: no node is found and the event is dropped)
VoiceEv(kind, g, k, ch, me, to, n) ==
    [ev |-> kind, n |-> n, sock |-> ch,
     m |-> [NoMsg EXCEPT !.g = g, !.id = k], by |-> IF me THEN "me" ELSE "other",
     st |-> to]

\* bot.add_listener(node.on_socket_response), once an initialize() has
\* connected its node
Listening ==
    \E c \in calls : c.call = "connect" /\ c.via = "initialize" /\ c.res = "ok"

\* node.on_socket_response(data) is called with a voice event
HostVoice(kind, g, me, ch) ==
    /\ ~running
    /\ Listening
    /\ budget.voice > 0
    /\ kind = "VOICE_SERVER_UPDATE" => (me /\ ch = 0)
    /\ LET k == MaxVoice - budget.voice + 1 IN
        runq' = Append(runq, [Task("voice", 0, "start") EXCEPT
                                !.via = kind, !.g = g, !.ch = ch, !.me = me, !.id = k])
    /\ budget' = [budget EXCEPT !.voice = @ - 1]
    /\ UNCHANGED <<nodeVars, playerVars, blocked, running, nextId, wire, calls>>

\* an aggregate that counts as complete with the server update alone
voice_complete_early(v) == v.event # 0

\* len(self.voice_states[guild_id]) == 3: guild_id and event come together
voice_complete(v) == v.event # 0 /\ v.session_id # 0

\* node.on_socket_response: get_node(guild_id, ignore_ready_status=True), then
\* PlayerManager.on_socket_response up to its first await
VoiceStart ==
    /\ At("voice", "start")
    /\ LET n == get_node(str_guild_id(Cur.g), TRUE)
           g == Cur.g
           t == [Cur EXCEPT !.n = n] IN
        IF n = 0
        THEN /\ Sched(Cur, "end", <<>>)
             /\ UNCHANGED <<playerVars, calls>>
        ELSE IF Cur.via = "VOICE_SERVER_UPDATE"
        THEN /\ voice_states' = [voice_states EXCEPT ![n][g].event = Cur.id]
             /\ Sched([t EXCEPT !.pc = "merge"], "cont", <<>>)
             /\ UNCHANGED <<_player_dict, pstate, pnode, pguild, _session_id,
                            _pending_server_update, calls, deck>>
        ELSE IF ~Cur.me
        THEN /\ Sched(Cur, "end", <<>>)
             /\ UNCHANGED <<playerVars, calls>>
        ELSE IF Cur.ch = 0
        THEN \* self.voice_states[guild_id] = {}; await self._remove_player(...)
             /\ voice_states' = [voice_states EXCEPT ![n][g] = NoVoice]
             /\ IF g \in guild_ids(n)
                THEN /\ _player_dict' = [_player_dict EXCEPT ![n] = DictDel(@, g)]
                     /\ Sched([t EXCEPT !.pc = "p_begin", !.p = get_player(n, g),
                                        !.ret = "session"], "cont", <<>>)
                ELSE /\ Sched([t EXCEPT !.pc = "session"], "cont", <<>>)
                     /\ UNCHANGED _player_dict
             /\ UNCHANGED <<pstate, pnode, pguild, _session_id,
                            _pending_server_update, calls, deck>>
        ELSE IF Cur.ch = ChannelLost
        THEN \* p, channel = self._ensure_player(...) unpacks None
             /\ Sched(Cur, "end", <<>>)
             /\ calls' = calls \cup {Done(t, "TypeError")}
             /\ UNCHANGED playerVars
        ELSE \* _ensure_player makes the Player the guild lacks;
             \* if channel != p.channel: p.channel = channel
             /\ IF g \in guild_ids(n)
                THEN /\ deck' = [deck EXCEPT ![get_player(n, g)].channel = Cur.ch]
                     /\ UNCHANGED <<_player_dict, pstate, pnode, pguild, _session_id,
                                     _pending_server_update>>
                ELSE /\ deck' = [deck EXCEPT ![Len(pstate) + 1].channel = Cur.ch]
                     /\ pstate' = Append(pstate, "CONNECTING")
                     /\ pnode' = Append(pnode, n)
                     /\ pguild' = Append(pguild, g)
                     /\ _session_id' = Append(_session_id, 0)
                     /\ _pending_server_update' = Append(_pending_server_update, 0)
                     /\ _player_dict' = [_player_dict EXCEPT
                                           ![n] = DictSet(@, g, Len(pstate) + 1)]
             /\ voice_states' = [voice_states EXCEPT ![n][g].session_id = Cur.id]
             /\ Sched([t EXCEPT !.pc = "merge"], "cont", <<>>)
             /\ UNCHANGED calls
    /\ wire' = Log(0, <<VoiceEv(Cur.via, Cur.g, Cur.id, Cur.ch, Cur.me, "manager",
                                get_node(str_guild_id(Cur.g), TRUE))>>)
    /\ UNCHANGED <<nodeVars, _listeners, nextId, budget>>

\* session_id = data["d"]["session_id"], after the player's teardown
VoiceSession ==
    /\ At("voice", "session")
    /\ voice_states' = [voice_states EXCEPT ![Cur.n][Cur.g].session_id = Cur.id]
    /\ Sched([Cur EXCEPT !.pc = "merge"], "cont", <<>>)
    /\ UNCHANGED <<nodeVars, deck, _listeners, _player_dict, pstate, pnode, pguild, _session_id,
                   _pending_server_update, nextId, histVars>>

\* if len(self.voice_states[guild_id]) == 3:
\*     await self.node.send_lavalink_voice_update(**self.voice_states[guild_id])
VoiceMerge ==
    /\ At("voice", "merge")
    /\ LET n == Cur.n
           v == voice_states[n][Cur.g]
           m == VoiceUpdate(Cur.g, v.session_id, v.event) IN
        IF voice_complete(v)
        THEN /\ _queue' = [_queue EXCEPT ![n] = send_queue(n, m)]
             /\ wire' = send_wire(n, m, "manager")
             /\ \E mode \in SendModes(n) : Sched([Cur EXCEPT !.pc = "sent"], mode, <<>>)
        ELSE /\ Sched(Cur, "end", <<>>)
             /\ UNCHANGED <<_queue, wire>>
    /\ UNCHANGED <<_nodes, made, state, ready, _ws, _is_shutdown, _resuming_configured,
                   _listener_task, _state_handlers, session_closed, wsClosed,
                   playerVars, nextId, budget, calls>>

VoiceSent ==
    /\ At("voice", "sent")
    /\ Sched(Cur, "end", <<>>)
    /\ UNCHANGED <<nodeVars, playerVars, nextId, histVars>>

(***************************************************************************)
(* player.py: Player.on_voice_server_update / on_voice_state_update        *)
(***************************************************************************)
\* class Player(RESTClient, VoiceProtocol): the library hands the voice
\* events of a guild to the guild's one voice client, the first player made
\* for the guild
voice_client(g) ==
    CHOOSE p \in 1..Len(pstate) :
        pguild[p] = g /\ \A q \in 1..Len(pstate) : pguild[q] = g => p <= q

HostPlayerVoice(kind, p, ch) ==
    /\ ~running
    /\ budget.voice > 0
    /\ p \in 1..Len(pstate)
    /\ p = voice_client(pguild[p])
    /\ kind = "VOICE_SERVER_UPDATE" => ch = 0
    /\ LET k == MaxVoice - budget.voice + 1 IN
        /\ runq' = Append(runq, [Task("pvoice", pnode[p], "start") EXCEPT
                                   !.via = kind, !.g = pguild[p], !.p = p, !.ch = ch,
                                   !.id = k])
        /\ wire' = Log(0, <<VoiceEv(kind, pguild[p], k, ch, TRUE, "player", pnode[p])>>)
    /\ budget' = [budget EXCEPT !.voice = @ - 1]
    /\ UNCHANGED <<nodeVars, playerVars, blocked, running, nextId, calls>>

PlayerVoiceStart ==
    /\ At("pvoice", "start")
    /\ LET p == Cur.p IN
        IF Cur.via = "VOICE_SERVER_UPDATE"
        THEN /\ _pending_server_update' = [_pending_server_update EXCEPT ![p] = Cur.id]
             /\ Sched([Cur EXCEPT !.pc = "merge"], "cont", <<>>)
             /\ UNCHANGED _session_id
        ELSE IF Cur.ch = 0
        THEN \* await self.disconnect(force=True)
             /\ _session_id' = [_session_id EXCEPT ![p] = 0]
             /\ _pending_server_update' = [_pending_server_update EXCEPT ![p] = 0]
             /\ Sched([Cur EXCEPT !.pc = "p_begin", !.ret = "merge"], "cont", <<>>)
        ELSE IF Cur.ch = ChannelLost
        THEN \* self.guild.get_channel() is None
             /\ _session_id' = [_session_id EXCEPT ![p] = 0]
             /\ _pending_server_update' = [_pending_server_update EXCEPT ![p] = 0]
             /\ Sched([Cur EXCEPT !.pc = "merge"], "cont", <<>>)
        ELSE /\ _session_id' = [_session_id EXCEPT ![p] = Cur.id]
             /\ Sched([Cur EXCEPT !.pc = "merge"], "cont", <<>>)
             /\ UNCHANGED _pending_server_update
    /\ UNCHANGED <<nodeVars, deck, _listeners, _player_dict, pstate, pnode, pguild, voice_states,
                   nextId, histVars>>

\* Player._send_lavalink_voice_update()
PlayerVoiceMerge ==
    /\ At("pvoice", "merge")
    /\ LET p == Cur.p
           n == Cur.n
           m == VoiceUpdate(Cur.g, _session_id[p], _pending_server_update[p]) IN
        IF _session_id[p] = 0 \/ _pending_server_update[p] = 0
        THEN /\ Sched(Cur, "end", <<>>)
             /\ UNCHANGED <<_queue, wire, _pending_server_update>>
        ELSE /\ _pending_server_update' = [_pending_server_update EXCEPT ![p] = 0]
             /\ _queue' = [_queue EXCEPT ![n] = send_queue(n, m)]
             /\ wire' = send_wire(n, m, "player")
             /\ \E mode \in SendModes(n) : Sched([Cur EXCEPT !.pc = "sent"], mode, <<>>)
    /\ UNCHANGED <<_nodes, made, state, ready, _ws, _is_shutdown, _resuming_configured,
                   _listener_task, _state_handlers, session_closed, wsClosed,
                   _player_dict, pstate, pnode, pguild, voice_states, deck, _listeners, _session_id,
                   nextId, budget, calls>>

PlayerVoiceSent ==
    /\ At("pvoice", "sent")
    /\ Sched(Cur, "end", <<>>)
    /\ UNCHANGED <<nodeVars, playerVars, nextId, histVars>>

(***************************************************************************)
(* player_manager.py: Player.add / force_shuffle / play / stop / seek       *)
(***************************************************************************)
StartOffset == 1
\* a Track: track_identifier, extras["bumped"], start_timestamp, seekable
\* (info["isSeekable"], False by default) and length (info["length"], 0 by
\* default, never negative)
Tracks == [id : 1..NumTracks, bumped : BOOLEAN, start : {0, StartOffset},
           seekable : BOOLEAN, length : {0, MaxPosition}]
\* the tracks that can be sought and are longer than their start_timestamp
Seekable == {t \in Tracks : t.seekable /\ t.length = MaxPosition}

\* a play message without the track
PlayMsg_untracked(g, id) == [NoMsg EXCEPT !.op = "play", !.g = g]
PlayMsg(g, id) == [NoMsg EXCEPT !.op = "play", !.g = g, !.id = id]
\* a stop message that names no guild
StopMsg_unaddressed(g) == [NoMsg EXCEPT !.op = "stop"]
\* {"op": "stop", "guildId": str(guild_id)}
StopMsg(g) == [NoMsg EXCEPT !.op = "stop", !.g = g]
SeekMsg(g, position) == [NoMsg EXCEPT !.op = "seek", !.g = g, !.id = position]

Min(a, b) == IF a < b THEN a ELSE b
Max(a, b) == IF a < b THEN b ELSE a

\* the host holds a Player object that was made
HostPlayerCall(p, field) ==
    /\ ~running
    /\ p \in 1..Len(pstate)
    /\ budget[field] > 0
    /\ budget' = [budget EXCEPT ![field] = @ - 1]

\* track.requester = requester; self.queue.append(track)
HostAdd(p, tr) ==
    /\ HostPlayerCall(p, "add")
    /\ deck' = [deck EXCEPT ![p].queue = Append(@, tr)]
    /\ UNCHANGED <<nodeVars, _player_dict, pstate, pnode, pguild, voiceVars, _listeners, loopVars,
                   wire, calls>>

\* player.repeat = b / player.shuffle_bumped = b
HostSetFlag(p, f, b) ==
    /\ HostPlayerCall(p, "flag")
    /\ deck' = [deck EXCEPT ![p][f] = b]
    /\ UNCHANGED <<nodeVars, _player_dict, pstate, pnode, pguild, voiceVars, _listeners, loopVars,
                   wire, calls>>

\* random.shuffle(x): every order of x
Shuffles(x) ==
    LET I == 1..Len(x) IN
    {[i \in I |-> x[f[i]]] : f \in {h \in [I -> I] : \A i, k \in I : h[i] = h[k] => i = k}}

Bumped(t) == t.bumped
NotBumped(t) == ~t.bumped

\* a finished force_shuffle(sticky_songs), for the history: the queue it found
Shuffled(t, queue) ==
    [call |-> "force_shuffle", via |-> "host", n |-> t.n, g |-> pguild[t.p], res |-> "ok",
     again |-> FALSE, own |-> {}, sticky_songs |-> t.idx, queue |-> queue]

\* every order of the whole queue
force_shuffle_all(queue, sticky_songs, shuffle_bumped) == Shuffles(queue)
\* Player.force_shuffle(sticky_songs): the queues it can leave
force_shuffle(queue, sticky_songs, shuffle_bumped) ==
    IF queue = <<>> THEN {queue}
    ELSE LET sticky == Max(0, sticky_songs)
             cut == Min(sticky, Len(queue))
             to_keep == IF sticky > 0 THEN SubSeq(queue, 1, cut) ELSE <<>>
             to_shuffle == IF sticky > 0 THEN SubSeq(queue, cut + 1, Len(queue))
                           ELSE queue
             kept == IF ~shuffle_bumped
                     THEN to_keep \o SelectSeq(to_shuffle, Bumped) ELSE to_keep
             rest == IF ~shuffle_bumped
                     THEN SelectSeq(to_shuffle, NotBumped) ELSE to_shuffle
         IN {kept \o x : x \in Shuffles(rest)}

StickySongs == (0 - 1)..(MaxShuffled + 1)

HostShuffle(p, sticky_songs) ==
    /\ HostPlayerCall(p, "shuffle")
    /\ runq' = Append(runq, [Task("force_shuffle", pnode[p], "start") EXCEPT
                                !.p = p, !.idx = sticky_songs])
    /\ UNCHANGED <<nodeVars, playerVars, blocked, running, nextId, wire, calls>>

ForceShuffle ==
    /\ At("force_shuffle", "start")
    /\ \E q \in force_shuffle(deck[Cur.p].queue, Cur.idx, deck[Cur.p].shuffle_bumped) :
          deck' = [deck EXCEPT ![Cur.p].queue = q]
    /\ Sched(Cur, "end", <<>>)
    /\ calls' = calls \cup {Shuffled(Cur, deck[Cur.p].queue)}
    /\ UNCHANGED <<nodeVars, _player_dict, pstate, pnode, pguild, voiceVars, _listeners, nextId,
                   budget, wire>>

HostPlay(p) ==
    /\ HostPlayerCall(p, "play")
    /\ runq' = Append(runq, [Task("play", pnode[p], "start") EXCEPT
                                !.p = p, !.g = pguild[p], !.via = "host"])
    /\ UNCHANGED <<nodeVars, playerVars, blocked, running, nextId, wire, calls>>

\* a repeat that puts the current track at the head of the queue
requeue_first(d) ==
    IF d.repeat /\ d.current # NoTrack THEN <<d.current>> \o d.queue ELSE d.queue
\* if self.repeat and self.current is not None: self.queue.append(self.current)
requeue(d) ==
    IF d.repeat /\ d.current # NoTrack THEN Append(d.queue, d.current) ELSE d.queue

\* Player.play(): up to its first await
Play ==
    /\ At("play", "start")
    /\ LET p == Cur.p
           n == Cur.n
           d == deck[p]
           queue == requeue(d)
           reset == [d EXCEPT !.queue = queue, !.current = NoTrack, !.position = 0,
                              !._paused = FALSE] IN
        IF queue = <<>>
        THEN \* await self.stop() -> await self.node.stop(guild_id)
             /\ deck' = [deck EXCEPT ![p] = reset]
             /\ _queue' = [_queue EXCEPT ![n] = send_queue(n, StopMsg(Cur.g))]
             /\ wire' = send_wire(n, StopMsg(Cur.g), "play")
             /\ \E mode \in SendModes(n) : Sched([Cur EXCEPT !.pc = "stopped"], mode, <<>>)
        ELSE \* track = self.queue.pop(0); await self.node.play(guild_id, track)
             LET track == Head(queue) IN
             /\ deck' = [deck EXCEPT ![p] = [reset EXCEPT !._is_playing = TRUE,
                                                          !.queue = Tail(queue),
                                                          !.current = track]]
             /\ _queue' = [_queue EXCEPT ![n] = send_queue(n, PlayMsg(Cur.g, track.id))]
             /\ wire' = send_wire(n, PlayMsg(Cur.g, track.id), "play")
             /\ \E mode \in SendModes(n) :
                   Sched([Cur EXCEPT !.pc = "seek", !.idx = track.start], mode, <<>>)
    /\ UNCHANGED <<_nodes, made, state, ready, _ws, _is_shutdown, _resuming_configured,
                   _listener_task, _state_handlers, session_closed, wsClosed,
                   _player_dict, pstate, pnode, pguild, voiceVars, _listeners,
                   nextId, budget, calls>>

\* a position that is cut at the length of the track only
seek_position_signed(position, length) == Min(position, length)
\* position = max(min(position, self.current.length), 0)
seek_position(position, length) == Max(Min(position, length), 0)

\* if track.start_timestamp > 0: await self.seek(track.start_timestamp)
PlaySeek ==
    /\ At("play", "seek")
    /\ LET n == Cur.n
           current == deck[Cur.p].current
           m == SeekMsg(Cur.g, seek_position(Cur.idx, current.length)) IN
        IF Cur.idx > 0 /\ current # NoTrack /\ current.seekable
        THEN /\ _queue' = [_queue EXCEPT ![n] = send_queue(n, m)]
             /\ wire' = send_wire(n, m, "play")
             /\ \E mode \in SendModes(n) : Sched([Cur EXCEPT !.pc = "done"], mode, <<>>)
             /\ UNCHANGED calls
        ELSE \* self.current.seekable with current None: AttributeError
             /\ Sched(Cur, "end", <<>>)
             /\ calls' = calls \cup
                   {Done(Cur, IF Cur.idx > 0 /\ current = NoTrack
                              THEN "AttributeError" ELSE "ok")}
             /\ UNCHANGED <<_queue, wire>>
    /\ UNCHANGED <<_nodes, made, state, ready, _ws, _is_shutdown, _resuming_configured,
                   _listener_task, _state_handlers, session_closed, wsClosed,
                   playerVars, nextId, budget>>

PlayDone ==
    /\ At("play", "done")
    /\ Sched(Cur, "end", <<>>)
    /\ calls' = calls \cup {Done(Cur, "ok")}
    /\ UNCHANGED <<nodeVars, playerVars, nextId, budget, wire>>

(***************************************************************************)
(* Player.seek(position)                                                    *)
(***************************************************************************)
\* the positions the host seeks: before, inside and behind every track
SeekPositions == (0 - 1)..(MaxPosition + 1)

HostSeek(p, position) ==
    /\ HostPlayerCall(p, "seek")
    /\ runq' = Append(runq, [Task("seek", pnode[p], "start") EXCEPT
                                !.p = p, !.g = pguild[p], !.idx = position])
    /\ UNCHANGED <<nodeVars, playerVars, blocked, running, nextId, wire, calls>>

\* if self.current.seekable: position = ...; await self.node.seek(guild_id, position)
Seek ==
    /\ At("seek", "start")
    /\ LET n == Cur.n
           current == deck[Cur.p].current
           m == SeekMsg(Cur.g, seek_position(Cur.idx, current.length)) IN
        IF current # NoTrack /\ current.seekable
        THEN /\ _queue' = [_queue EXCEPT ![n] = send_queue(n, m)]
             /\ wire' = send_wire(n, m, "seek")
             /\ \E mode \in SendModes(n) : Sched([Cur EXCEPT !.pc = "done"], mode, <<>>)
             /\ UNCHANGED calls
        ELSE \* self.current.seekable with current None: AttributeError
             /\ Sched(Cur, "end", <<>>)
             /\ calls' = calls \cup
                   {Done(Cur, IF current = NoTrack THEN "AttributeError" ELSE "ok")}
             /\ UNCHANGED <<_queue, wire>>
    /\ UNCHANGED <<_nodes, made, state, ready, _ws, _is_shutdown, _resuming_configured,
                   _listener_task, _state_handlers, session_closed, wsClosed,
                   playerVars, nextId, budget>>

SeekDone ==
    /\ At("seek", "done")
    /\ Sched(Cur, "end", <<>>)
    /\ calls' = calls \cup {Done(Cur, "ok")}
    /\ UNCHANGED <<nodeVars, playerVars, nextId, budget, wire>>

(***************************************************************************)
(* Player.set_volume(volume)                                                *)
(***************************************************************************)
\* the upper end of the volume range: max(min(volume, 150), 0)
MaxVolume == 150
\* the volumes the host asks for: below, at the ends of, inside and above the
\* range, and the largest integer of the model
Volumes == {0 - 2147483647, 0 - 1, 0, 1, MaxVolume - 1, MaxVolume, MaxVolume + 1,
            2147483647}
\* {"op": "volume", "guildId": str(guild_id), "volume": _volume}
VolumeMsg(g, volume) == [NoMsg EXCEPT !.op = "volume", !.g = g, !.id = volume]

\* a volume that is cut at the top only
clamp_volume_top(volume) == Min(volume, MaxVolume)
\* max(min(volume, 150), 0)
clamp_volume(volume) == Max(Min(volume, MaxVolume), 0)

HostSetVolume(p, volume) ==
    /\ HostPlayerCall(p, "vol")
    /\ runq' = Append(runq, [Task("set_volume", pnode[p], "start") EXCEPT
                                !.p = p, !.g = pguild[p], !.idx = volume])
    /\ UNCHANGED <<nodeVars, playerVars, blocked, running, nextId, wire, calls>>

\* self._volume = max(min(volume, 150), 0);
\* await self.node.volume(self.channel.guild.id, self.volume)
SetVolume ==
    /\ At("set_volume", "start")
    /\ LET n == Cur.n
           v == clamp_volume(Cur.idx) IN
        /\ deck' = [deck EXCEPT ![Cur.p]._volume = v]
        /\ _queue' = [_queue EXCEPT ![n] = send_queue(n, VolumeMsg(Cur.g, v))]
        /\ wire' = send_wire(n, VolumeMsg(Cur.g, v), "set_volume")
        /\ \E mode \in SendModes(n) : Sched([Cur EXCEPT !.pc = "done"], mode, <<>>)
    /\ UNCHANGED <<_nodes, made, state, ready, _ws, _is_shutdown, _resuming_configured,
                   _listener_task, _state_handlers, session_closed, wsClosed,
                   _player_dict, pstate, pnode, pguild, voiceVars, _listeners,
                   nextId, budget, calls>>

SetVolumeDone ==
    /\ At("set_volume", "done")
    /\ Sched(Cur, "end", <<>>)
    /\ calls' = calls \cup {Done(Cur, "ok")}
    /\ UNCHANGED <<nodeVars, playerVars, nextId, budget, wire>>

(***************************************************************************)
(* lavalink.dispatch(op, data, raw_data) and the frames of the node         *)
(***************************************************************************)
TrackEndReasons == {"FINISHED", "LOAD_FAILED", "STOPPED", "REPLACED", "CLEANUP"}
LavalinkEvents == {"TrackEndEvent", "TrackExceptionEvent", "TrackStuckEvent",
                   "TrackStartEvent", "WebSocketClosedEvent", "QueueEndEvent"}
LavalinkIncomingOp == {"event", "playerUpdate", "stats"}

Frames ==
    {[NoFrame EXCEPT !.op = "event", !.type = "TrackEndEvent", !.reason = r, !.g = g] :
        r \in TrackEndReasons, g \in 0..NumGuilds}
    \cup {[NoFrame EXCEPT !.op = "event", !.type = ty, !.g = g] :
             ty \in {"TrackStartEvent", "unknown"}, g \in Guilds}
    \cup {[NoFrame EXCEPT !.op = "playerUpdate", !.g = g, !.position = pos] :
             g \in 0..NumGuilds, pos \in 0..MaxPosition}
    \cup {[NoFrame EXCEPT !.op = op] : op \in {"stats", "unknown", "malformed"}}

NoArgs == [res |-> "dropped", p |-> 0]
\* _get_event_args: IndexError and KeyError are caught
_get_event_args(type, reason, g) ==
    IF g = 0 THEN [NoArgs EXCEPT !.res = "TypeError"]
    ELSE LET node_ == get_node(g, TRUE) IN
         IF node_ = 0 \/ g \notin guild_ids(node_) THEN NoArgs
         ELSE IF type = "TrackEndEvent" /\ reason \notin TrackEndReasons
         THEN [NoArgs EXCEPT !.res = "ValueError"]
         ELSE [res |-> "args", p |-> get_player(node_, g)]

\* _get_update_args -> get_player(guild_id): only KeyError is caught
_get_update_args(g) ==
    IF g = 0 THEN [NoArgs EXCEPT !.res = "TypeError"]
    ELSE LET node_ == get_node(g, FALSE) IN
         IF node_ = 0 THEN [NoArgs EXCEPT !.res = "IndexError"]
         ELSE IF g \notin guild_ids(node_) THEN NoArgs
         ELSE [res |-> "args", p |-> get_player(node_, g)]

\* a dispatch that takes the stats listeners for every frame
dispatch_registry_stats(op) == "stats"
\* dispatch: the list of listeners it takes for the op
dispatch_registry(op) ==
    IF op = "event" THEN "event" ELSE IF op = "playerUpdate" THEN "update" ELSE "stats"

\* dispatch: how it ends and the tasks it creates, one per listener
dispatch(op, type, reason, g, position) ==
    LET args == IF op = "event" THEN _get_event_args(type, reason, g)
                ELSE IF op = "playerUpdate" THEN _get_update_args(g)
                ELSE [res |-> "args", p |-> 0]
        coro == IF op = "event"
                THEN [Task("handle_event", 0, "start") EXCEPT
                         !.p = args.p, !.g = g, !.via = type, !.res = reason]
                ELSE [Task("handle_player_update", 0, "start") EXCEPT
                         !.p = args.p, !.g = g, !.idx = position]
        listeners == _listeners[dispatch_registry(op)]
    IN [res |-> IF args.res = "args" THEN "ok" ELSE args.res,
        \* for coro in listeners: _loop.create_task(coro(*args))
        tasks |-> IF args.res = "args"
                  THEN [i \in 1..Len(listeners) |->
                           IF listeners[i] \in {"_handle_event", "_handle_update"}
                           THEN coro
                           ELSE [Task("callback", 0, "start") EXCEPT !.via = op, !.g = g]]
                  ELSE <<>>]

\* Node.stop after its send: self.event_handler(EVENT, QUEUE_END, {"guildId": ...});
\* then Player.stop: queue = [], current = None, position = 0, _paused = False
PlayStopped ==
    /\ At("play", "stopped")
    /\ LET d == dispatch("event", "QueueEndEvent", "", Cur.g, 0) IN
        /\ Sched(Cur, "end", d.tasks)
        /\ calls' = calls \cup {Done(Cur, d.res)}
    /\ deck' = [deck EXCEPT ![Cur.p] = [@ EXCEPT !.queue = <<>>, !.current = NoTrack,
                                                 !.position = 0, !._paused = FALSE]]
    /\ UNCHANGED <<nodeVars, _player_dict, pstate, pnode, pguild, voiceVars, _listeners,
                   nextId, budget, wire>>

\* every end of a track starts the next one
handle_event_plays_always(event, extra) == event = "TrackEndEvent"
\* if event == LavalinkEvents.TRACK_END: if extra == TrackEndReason.FINISHED
handle_event_plays(event, extra) == event = "TrackEndEvent" /\ extra = "FINISHED"

\* Player.handle_event(event, extra)
HandleEvent ==
    /\ At("handle_event", "start")
    /\ IF handle_event_plays(Cur.via, Cur.res)
       THEN \* await self.play()
            /\ Sched([Task("play", pnode[Cur.p], "start") EXCEPT
                         !.p = Cur.p, !.g = pguild[Cur.p], !.via = "TrackEndEvent",
                         !.res = Cur.res],
                     "cont", <<>>)
            /\ UNCHANGED deck
       ELSE /\ Sched(Cur, "end", <<>>)
            /\ deck' = IF Cur.via = "TrackEndEvent"
                       THEN [deck EXCEPT ![Cur.p]._is_playing = FALSE] ELSE deck
    /\ UNCHANGED <<nodeVars, _player_dict, pstate, pnode, pguild, voiceVars, _listeners,
                   nextId, histVars>>

\* Player.handle_player_update(state)
handle_player_update(d, position) ==
    [d EXCEPT !._is_playing = IF position > d.position THEN TRUE ELSE @,
              !.position = position]

HandlePlayerUpdate ==
    /\ At("handle_player_update", "start")
    /\ deck' = [deck EXCEPT ![Cur.p] = handle_player_update(@, Cur.idx)]
    /\ Sched(Cur, "end", <<>>)
    /\ UNCHANGED <<nodeVars, _player_dict, pstate, pnode, pguild, voiceVars, _listeners,
                   nextId, histVars>>

\* Node.listener: receive() has returned a text frame
ListenerText ==
    /\ At("listener", "receive")
    /\ Cur.res = "TEXT"
    /\ LET f == Cur.f
           again == [Cur EXCEPT !.pc = "loop", !.res = "", !.f = NoFrame] IN
        IF f.op = "malformed"
        THEN \* data = msg.json() raises: the listener task ends
             /\ Sched(Cur, "end", <<>>)
             /\ calls' = calls \cup {Done(Cur, "JSONDecodeError")}
        ELSE IF f.op \notin LavalinkIncomingOp
        THEN /\ Sched(again, "cont", <<>>)
             /\ UNCHANGED calls
        ELSE \* self.loop.create_task(self._handle_op(op, data))
             /\ Sched(again, "cont", <<[Task("_handle_op", Cur.n, "start") EXCEPT !.f = f]>>)
             /\ UNCHANGED calls
    /\ UNCHANGED <<nodeVars, playerVars, nextId, budget, wire>>

\* Node._handle_op(op, data) -> self.event_handler(op, ..., data)
HandleOp ==
    /\ At("_handle_op", "start")
    /\ LET f == Cur.f IN
        IF f.op = "event" /\ f.type \notin LavalinkEvents
        THEN \* log.debug("Unknown event type: %s", data)
             /\ Sched(Cur, "end", <<>>)
             /\ UNCHANGED calls
        ELSE LET d == dispatch(f.op, f.type, f.reason, f.g, f.position) IN
             /\ Sched(Cur, "end", d.tasks)
             /\ calls' = calls \cup
                   {Done([Cur EXCEPT !.kind = "dispatch", !.via = f.op, !.g = f.g], d.res)}
    /\ UNCHANGED <<nodeVars, playerVars, nextId, budget, wire>>

(***************************************************************************)
(* lavalink.register_*_listener(coro) / unregister_*_listener(coro)         *)
(***************************************************************************)
\* a finished call on the registry r, for the history: its argument and the
\* list it found
Registered(call, r, coro, res) ==
    [call |-> call, via |-> r, n |-> 0, g |-> 0, res |-> res, again |-> FALSE,
     own |-> {}, coro |-> coro, listeners |-> _listeners[r]]

HostRegister(r, coro) ==
    /\ ~running
    /\ budget.reg > 0
    /\ budget' = [budget EXCEPT !.reg = @ - 1]
    /\ IF ~iscoroutinefunction(coro)
       THEN \* raise TypeError("Function is not a coroutine.")
            /\ calls' = calls \cup {Registered("register", r, coro, "TypeError")}
            /\ UNCHANGED _listeners
       ELSE /\ _listeners' = [_listeners EXCEPT ![r] = register(@, coro)]
            /\ calls' = calls \cup {Registered("register", r, coro, "ok")}
    /\ UNCHANGED <<nodeVars, _player_dict, pstate, pnode, pguild, voiceVars, deck,
                   loopVars, wire>>

HostUnregister(r, coro) ==
    /\ ~running
    /\ budget.reg > 0
    /\ budget' = [budget EXCEPT !.reg = @ - 1]
    /\ _listeners' = [_listeners EXCEPT ![r] = unregister(@, coro)]
    /\ calls' = calls \cup {Registered("unregister", r, coro, "ok")}
    /\ UNCHANGED <<nodeVars, _player_dict, pstate, pnode, pguild, voiceVars, deck,
                   loopVars, wire>>

\* a listener of the host runs
Callback ==
    /\ At("callback", "start")
    /\ Sched(Cur, "end", <<>>)
    /\ calls' = calls \cup {Done(Cur, "ok")}
    /\ UNCHANGED <<nodeVars, playerVars, nextId, budget, wire>>

\* a listener of the host raises: its task ends with the exception
CallbackFails ==
    /\ At("callback", "start")
    /\ Sched(Cur, "end", <<>>)
    /\ calls' = calls \cup {Done(Cur, "Exception")}
    /\ UNCHANGED <<nodeVars, playerVars, nextId, budget, wire>>

\* a listener of the host awaits something that never completes
CallbackHangs ==
    /\ At("callback", "start")
    /\ Sched([Cur EXCEPT !.pc = "hang"], "suspend", <<>>)
    /\ UNCHANGED <<nodeVars, playerVars, nextId, histVars>>

(***************************************************************************)
(* The environment: I/O completes, the server answers, deadlines expire.   *)
(***************************************************************************)
\* a socket write has drained, a sleep is over, a close has finished
IOComplete(t) ==
    /\ ~running
    /\ t \in BagToSet(blocked)
    /\ t.pc \notin {"await_mtc", "ws_connect", "receive", "hang"}
    /\ runq' = Append(runq, t)
    /\ blocked' = blocked (-) SetToBag({t})
    /\ UNCHANGED <<nodeVars, playerVars, running, nextId, histVars>>

\* session.ws_connect() returns a socket, or raises
WsConnectDone(t, r) ==
    /\ ~running
    /\ t \in BagToSet(blocked)
    /\ t.pc = "ws_connect"
    /\ \/ r = "ok" /\ UNCHANGED budget
       \/ r = "oserror" /\ budget.fail > 0
                        /\ budget' = [budget EXCEPT !.fail = @ - 1]
       \/ r = "handshake" /\ budget.reject > 0
                          /\ budget' = [budget EXCEPT !.reject = @ - 1]
    /\ runq' = Append(runq, [t EXCEPT !.res = r])
    /\ blocked' = blocked (-) SetToBag({t})
    /\ UNCHANGED <<nodeVars, playerVars, running, nextId, wire, calls>>

\* the socket delivers a close frame: the remote side closed it, or close()
\* was called on it locally
ReceiveClose(t) ==
    /\ ~running
    /\ t \in BagToSet(blocked)
    /\ t.pc = "receive"
    /\ IF wsClosed[t.n][t.sock]
       THEN UNCHANGED budget
       ELSE budget.drop > 0 /\ budget' = [budget EXCEPT !.drop = @ - 1]
    /\ runq' = Append(runq, [t EXCEPT !.res = "CLOSE"])
    /\ blocked' = blocked (-) SetToBag({t})
    /\ UNCHANGED <<nodeVars, playerVars, running, nextId, wire, calls>>

\* the socket fails: receive() closes it and returns an ERROR frame
ReceiveError(t) ==
    /\ ~running
    /\ t \in BagToSet(blocked)
    /\ t.pc = "receive"
    /\ ~wsClosed[t.n][t.sock]
    /\ budget.drop > 0
    /\ budget' = [budget EXCEPT !.drop = @ - 1]
    /\ runq' = Append(runq, [t EXCEPT !.res = "ERROR"])
    /\ blocked' = blocked (-) SetToBag({t})
    /\ UNCHANGED <<nodeVars, playerVars, running, nextId, wire, calls>>

\* the socket delivers a text frame
ReceiveText(t, f) ==
    /\ ~running
    /\ t \in BagToSet(blocked)
    /\ t.pc = "receive"
    /\ ~wsClosed[t.n][t.sock]
    /\ budget.frame > 0
    /\ budget' = [budget EXCEPT !.frame = @ - 1]
    /\ runq' = Append(runq, [t EXCEPT !.res = "TEXT", !.f = f])
    /\ blocked' = blocked (-) SetToBag({t})
    /\ UNCHANGED <<nodeVars, playerVars, running, nextId, wire, calls>>

\* the timeout of asyncio.as_completed expires
Timeout(t) ==
    /\ ~running
    /\ t \in BagToSet(blocked)
    /\ t.pc = "await_mtc"
    /\ t.timed
    /\ budget.timeout > 0
    /\ budget' = [budget EXCEPT !.timeout = @ - 1]
    /\ runq' = Append(runq, [t EXCEPT !.pc = "after_mtc", !.res = "timeout"])
    /\ blocked' = blocked (-) SetToBag({t})
    /\ UNCHANGED <<nodeVars, playerVars, running, nextId, wire, calls>>

Next ==
    \/ HostInitialize
    \/ Initialize
    \/ ConnectStart
    \/ MtcLoop
    \/ MtcWsConnect
    \/ MtcSleep
    \/ ConnectAfter
    \/ ConnectFlush
    \/ ConfigureStart
    \/ ConfigureSet
    \/ ListenerLoop
    \/ ListenerClosed
    \/ Reconnect
    \/ \E n \in Nodes : HostSend(n)
    \/ Send
    \/ NodeStateHandler
    \/ PlayerDisconnect
    \/ PlayerDestroy
    \/ PlayerClose
    \/ PlayerRemove
    \/ \E n \in Nodes : HostConnect(n)
    \/ \E n \in Nodes : HostDisconnect(n)
    \/ DisconnectStart
    \/ DisconnectPlayers
    \/ DisconnectNextPlayer
    \/ DisconnectCloseWs
    \/ DisconnectCancel
    \/ DisconnectFinal
    \/ HostClose
    \/ Close
    \/ \E g \in Guilds, ign \in BOOLEAN : HostGetNode(g, ign)
    \/ \E g \in Guilds : HostJoin(g, ChannelFound)
    \/ LavalinkConnect
    \/ CreatePlayerInsert
    \/ CreatePlayerMoved
    \/ \E kind \in VoiceKinds, g \in Guilds, me \in BOOLEAN, ch \in Channels :
          HostVoice(kind, g, me, ch)
    \/ VoiceStart
    \/ VoiceSession
    \/ VoiceMerge
    \/ VoiceSent
    \/ \E kind \in VoiceKinds, p \in 1..Len(pstate), ch \in Channels :
          HostPlayerVoice(kind, p, ch)
    \/ PlayerVoiceStart
    \/ PlayerVoiceMerge
    \/ PlayerVoiceSent
    \/ \E p \in PlayerIds, tr \in Tracks : HostAdd(p, tr)
    \/ \E p \in PlayerIds, f \in {"repeat", "shuffle_bumped"}, b \in BOOLEAN :
          HostSetFlag(p, f, b)
    \/ \E p \in PlayerIds, sticky_songs \in StickySongs : HostShuffle(p, sticky_songs)
    \/ ForceShuffle
    \/ \E p \in PlayerIds : HostPlay(p)
    \/ Play
    \/ PlaySeek
    \/ PlayDone
    \/ PlayStopped
    \/ \E t \in BagToSet(blocked), f \in Frames : ReceiveText(t, f)
    \/ ListenerText
    \/ HandleOp
    \/ HandleEvent
    \/ HandlePlayerUpdate
    \/ \E r \in Registries, coro \in Callbacks : HostRegister(r, coro)
    \/ \E r \in Registries, coro \in Callbacks : HostUnregister(r, coro)
    \/ Callback
    \/ CallbackFails
    \/ CallbackHangs
    \/ \E p \in PlayerIds, volume \in Volumes : HostSetVolume(p, volume)
    \/ SetVolume
    \/ SetVolumeDone
    \/ \E p \in PlayerIds, position \in SeekPositions : HostSeek(p, position)
    \/ Seek
    \/ SeekDone
    \/ \E t \in BagToSet(blocked) : IOComplete(t)
    \/ \E t \in BagToSet(blocked), r \in {"ok", "oserror", "handshake"} :
          WsConnectDone(t, r)
    \/ \E t \in BagToSet(blocked) : ReceiveClose(t)
    \/ \E t \in BagToSet(blocked) : ReceiveError(t)
    \/ \E t \in BagToSet(blocked) : Timeout(t)

Spec == Init /\ [][Next]_vars

(***************************************************************************)
(* Scenarios: the same program under a host that makes only some of the    *)
(* calls, so that each part can be explored exhaustively.                   *)
(***************************************************************************)
NoBudget == [init |-> 0, send |-> 0, drop |-> 0, fail |-> 0, reject |-> 0,
             timeout |-> 0, disc |-> 0, close |-> 0, join |-> 0, query |-> 0,
             voice |-> 0, add |-> 0, play |-> 0, flag |-> 0, shuffle |-> 0,
             frame |-> 0, reg |-> 0, vol |-> 0, seek |-> 0, conn |-> 0]

\* nodes are initialized and connect
ConnectNext ==
    \/ HostInitialize
    \/ Initialize
    \/ ConnectStart
    \/ MtcLoop
    \/ MtcWsConnect
    \/ ConnectAfter
    \/ ConnectFlush
    \/ ConfigureStart
    \/ ConfigureSet
    \/ ListenerLoop
    \/ NodeStateHandler
    \/ \E t \in BagToSet(blocked) : IOComplete(t)
    \/ \E t \in BagToSet(blocked), r \in {"ok", "oserror", "handshake"} :
          WsConnectDone(t, r)

\* a socket is closed, its listener ends, the node reconnects
DropNext ==
    \/ \E t \in BagToSet(blocked) : ReceiveClose(t)
    \/ ListenerClosed
    \/ Reconnect

PlayerNext ==
    \/ \E g \in Guilds : HostJoin(g, ChannelFound)
    \/ LavalinkConnect
    \/ CreatePlayerInsert

PlayerTeardownNext ==
    \/ PlayerDisconnect
    \/ PlayerDestroy
    \/ PlayerClose
    \/ PlayerRemove

NodeTeardownNext ==
    \/ \E n \in Nodes : HostDisconnect(n)
    \/ DisconnectStart
    \/ DisconnectPlayers
    \/ DisconnectNextPlayer
    \/ DisconnectCloseWs
    \/ DisconnectCancel
    \/ DisconnectFinal

TeardownNext ==
    \/ NodeTeardownNext
    \/ PlayerTeardownNext

\* the host sends while one node connects, drops and reconnects
QueueBudget == [NoBudget EXCEPT !.init = 1, !.send = MaxSend, !.drop = MaxDrop,
                                !.fail = MaxFail]
QueueNext ==
    \/ ConnectNext
    \/ DropNext
    \/ MtcSleep
    \/ \E n \in Nodes : HostSend(n)
    \/ Send
SpecQueue == InitWith(QueueBudget) /\ [][QueueNext]_vars

\* the host joins a voice channel on one node and disconnects the node
ShutdownBudget == [NoBudget EXCEPT !.init = 1, !.join = 1, !.drop = MaxDrop,
                                   !.disc = MaxDisconnect]
ShutdownNext ==
    \/ ConnectNext
    \/ DropNext
    \/ PlayerNext
    \/ TeardownNext
SpecShutdown == InitWith(ShutdownBudget) /\ [][ShutdownNext]_vars

\* the host runs a pool of nodes, disconnects one and closes the library
PoolBudget == [NoBudget EXCEPT !.init = NumNodes, !.disc = 1, !.close = MaxClose]
PoolNext ==
    \/ ConnectNext
    \/ NodeTeardownNext
    \/ HostClose
    \/ Close
SpecPool == InitWith(PoolBudget) /\ [][PoolNext]_vars

\* the host asks for the node of a guild while the nodes of a pool drop
RoutingBudget == [NoBudget EXCEPT !.init = NumNodes, !.join = 1, !.drop = MaxDrop,
                                  !.query = MaxQuery]
RoutingNext ==
    \/ ConnectNext
    \/ DropNext
    \/ PlayerNext
    \/ \E g \in Guilds, ign \in BOOLEAN : HostGetNode(g, ign)
SpecRouting == InitWith(RoutingBudget) /\ [][RoutingNext]_vars

\* the host joins voice channels while the nodes of a pool drop
OwnershipBudget == [NoBudget EXCEPT !.init = NumNodes, !.join = MaxJoin,
                                    !.drop = MaxDrop]
OwnershipNext ==
    \/ ConnectNext
    \/ DropNext
    \/ PlayerNext
    \/ CreatePlayerMoved
SpecOwnership == InitWith(OwnershipBudget) /\ [][OwnershipNext]_vars

\* the gateway delivers voice events for the guilds of one node
VoiceBudget == [NoBudget EXCEPT !.init = 1, !.join = 1, !.voice = MaxVoice]
VoiceNext ==
    \/ ConnectNext
    \/ PlayerNext
    \/ \E kind \in VoiceKinds, g \in Guilds, me \in BOOLEAN, ch \in Channels :
          HostVoice(kind, g, me, ch)
    \/ VoiceStart
    \/ VoiceSession
    \/ VoiceMerge
    \/ VoiceSent
    \/ \E kind \in VoiceKinds, p \in 1..Len(pstate), ch \in Channels :
          HostPlayerVoice(kind, p, ch)
    \/ PlayerVoiceStart
    \/ PlayerVoiceMerge
    \/ PlayerVoiceSent
    \/ PlayerTeardownNext
SpecVoice == InitWith(VoiceBudget) /\ [][VoiceNext]_vars

\* the frames of a node's listener and the tasks they create
FrameNext ==
    \/ ListenerText
    \/ HandleOp

\* the host fills the queue of a player and shuffles it
ShuffleBudget == [NoBudget EXCEPT !.init = 1, !.join = 1, !.add = MaxShuffled,
                                  !.flag = MaxFlag, !.shuffle = MaxShuffle]
ShuffleNext ==
    \/ ConnectNext
    \/ PlayerNext
    \/ \E p \in PlayerIds, tr \in {t \in Seekable : t.start = 0} : HostAdd(p, tr)
    \/ \E p \in PlayerIds, b \in BOOLEAN : HostSetFlag(p, "shuffle_bumped", b)
    \/ \E p \in PlayerIds, sticky_songs \in StickySongs : HostShuffle(p, sticky_songs)
    \/ ForceShuffle
SpecShuffle == InitWith(ShuffleBudget) /\ [][ShuffleNext]_vars

\* the host fills the queue of a player and plays it, and the node reports
\* the end of a track
PlaybackBudget == [NoBudget EXCEPT !.init = 1, !.join = 1, !.add = MaxAdd,
                                   !.flag = MaxFlag, !.play = MaxPlay, !.frame = 1]
PlaybackNext ==
    \/ ConnectNext
    \/ PlayerNext
    \/ \E p \in PlayerIds, tr \in {t \in Seekable : ~t.bumped} : HostAdd(p, tr)
    \/ \E p \in PlayerIds, b \in BOOLEAN : HostSetFlag(p, "repeat", b)
    \/ \E p \in PlayerIds : HostPlay(p)
    \/ Play
    \/ PlaySeek
    \/ PlayDone
    \/ PlayStopped
    \/ \E t \in BagToSet(blocked) :
          \E f \in {x \in Frames : x.type = "TrackEndEvent" /\ x.g # 0} : ReceiveText(t, f)
    \/ FrameNext
    \/ HandleEvent
SpecPlayback == InitWith(PlaybackBudget) /\ [][PlaybackNext]_vars

\* the node reports the position of a player
PositionBudget == [NoBudget EXCEPT !.init = 1, !.join = 1, !.frame = MaxFrame]
PositionNext ==
    \/ ConnectNext
    \/ PlayerNext
    \/ \E t \in BagToSet(blocked) :
          \E f \in {x \in Frames : x.op = "playerUpdate" /\ x.g # 0} : ReceiveText(t, f)
    \/ FrameNext
    \/ HandlePlayerUpdate
SpecPosition == InitWith(PositionBudget) /\ [][PositionNext]_vars

\* frames of every kind arrive while the node connects, the host joins and
\* disconnects the node
DispatchBudget == [NoBudget EXCEPT !.init = 1, !.join = 1, !.disc = 1,
                                   !.frame = MaxFrame]
DispatchNext ==
    \/ ConnectNext
    \/ PlayerNext
    \/ TeardownNext
    \/ \E t \in BagToSet(blocked) :
          \E f \in {x \in Frames : /\ x.reason \in {"", "FINISHED", "STOPPED"}
                                   /\ x.position < MaxPosition} : ReceiveText(t, f)
    \/ FrameNext
    \/ HandleEvent
    \/ HandlePlayerUpdate
    \/ Play
    \/ PlayStopped
SpecDispatch == InitWith(DispatchBudget) /\ [][DispatchNext]_vars

\* the handshake attempts of a node fail, are rejected or time out, the
\* socket is lost and the host disconnects the node
AttemptBudget == [NoBudget EXCEPT !.init = 1, !.join = 1, !.fail = MaxRetry,
                                  !.reject = MaxReject, !.timeout = MaxTimeout,
                                  !.disc = 1, !.drop = MaxDrop]
AttemptNext ==
    \/ ConnectNext
    \/ DropNext
    \/ MtcSleep
    \/ \E t \in BagToSet(blocked) : Timeout(t)
    \/ PlayerNext
    \/ TeardownNext
SpecAttempt == InitWith(AttemptBudget) /\ [][AttemptNext]_vars

\* the socket of a node closes or fails while the host may disconnect the node
ReconnectBudget == [NoBudget EXCEPT !.init = 1, !.drop = MaxDrop, !.fail = MaxFail,
                                    !.disc = 1, !.send = 1]
ReconnectNext ==
    \/ ConnectNext
    \/ DropNext
    \/ \E t \in BagToSet(blocked) : ReceiveError(t)
    \/ MtcSleep
    \/ NodeTeardownNext
    \/ \E n \in Nodes : HostSend(n)
    \/ Send
SpecReconnect == InitWith(ReconnectBudget) /\ [][ReconnectNext]_vars

\* the host registers listeners that may fail or hang, and frames of the
\* three categories arrive for the guild of a player
ListenersBudget == [NoBudget EXCEPT !.init = 1, !.join = 1, !.reg = MaxRegister,
                                    !.frame = MaxFrame]
ListenersNext ==
    \/ ConnectNext
    \/ PlayerNext
    \/ \E r \in Registries : HostRegister(r, "callback")
    \/ \E t \in BagToSet(blocked) :
          \E f \in {x \in Frames : \/ x.op = "stats"
                                   \/ x.op = "event" /\ x.type = "TrackStartEvent"
                                   \/ x.op = "playerUpdate" /\ x.position = 1} :
             ReceiveText(t, f)
    \/ FrameNext
    \/ HandleEvent
    \/ HandlePlayerUpdate
    \/ Callback
    \/ CallbackFails
    \/ CallbackHangs
SpecListeners == InitWith(ListenersBudget) /\ [][ListenersNext]_vars

\* frames arrive while the socket of a node is lost and the host calls
\* connect() and disconnect() on the node
LoopBudget == [NoBudget EXCEPT !.init = 1, !.conn = MaxConnect, !.drop = MaxDrop,
                               !.disc = 1, !.frame = MaxFrame]
LoopNext ==
    \/ ConnectNext
    \/ DropNext
    \/ NodeTeardownNext
    \/ \E n \in Nodes : HostConnect(n)
    \* the frames arrive before the host's connect() and disconnect() calls
    \/ \E t \in BagToSet(blocked) :
          \E f \in {x \in Frames : \/ x.op = "stats"
                                   \/ x.op = "playerUpdate" /\ x.g = 1 /\ x.position = 0} :
             budget.disc = 1 /\ budget.conn = MaxConnect /\ ReceiveText(t, f)
    \/ FrameNext
SpecLoop == InitWith(LoopBudget) /\ [][LoopNext]_vars

\* a node connects, its socket is lost up to MaxLoss times and the host sends;
\* disconnect() is never called
RecoverBudget == [NoBudget EXCEPT !.init = 1, !.drop = MaxLoss, !.send = MaxSend]
\* the steps of the tasks of the event loop
RecoverTasks ==
    \/ Initialize
    \/ ConnectStart
    \/ MtcLoop
    \/ MtcWsConnect
    \/ ConnectAfter
    \/ ConnectFlush
    \/ ConfigureStart
    \/ ConfigureSet
    \/ ListenerLoop
    \/ NodeStateHandler
    \/ ListenerClosed
    \/ Reconnect
    \/ Send
\* the steps of the host and of the transport
RecoverEnv ==
    \/ HostInitialize
    \/ \E n \in Nodes : HostSend(n)
    \/ \E t \in BagToSet(blocked) : IOComplete(t)
    \/ \E t \in BagToSet(blocked) : WsConnectDone(t, "ok")
    \/ \E t \in BagToSet(blocked) : ReceiveClose(t)
    \/ \E t \in BagToSet(blocked) : ReceiveError(t)
RecoverNext == RecoverTasks \/ RecoverEnv
\* the event loop runs every task that is ready, every write and close
\* completes, and the transport accepts every handshake after a while
RecoverFairness ==
    /\ WF_vars(RecoverTasks)
    /\ WF_vars(\E t \in BagToSet(blocked) : IOComplete(t))
    /\ WF_vars(\E t \in BagToSet(blocked) : WsConnectDone(t, "ok"))
SpecRecover == InitWith(RecoverBudget) /\ [][RecoverNext]_vars /\ RecoverFairness

\* the host registers and unregisters listeners while a node connects and
\* sends stats
RegistryBudget == [NoBudget EXCEPT !.init = 1, !.reg = MaxRegister, !.frame = 1]
RegistryNext ==
    \/ ConnectNext
    \/ \E r \in Registries, coro \in {"callback", "function"} : HostRegister(r, coro)
    \/ \E r \in Registries, coro \in {"callback", "function"} : HostUnregister(r, coro)
    \/ \E t \in BagToSet(blocked) :
          \E f \in {x \in Frames : x.op = "stats"} : ReceiveText(t, f)
    \/ FrameNext
    \/ Callback
SpecRegistry == InitWith(RegistryBudget) /\ [][RegistryNext]_vars

\* the host calls lavalink.connect() again and again, with either channel,
\* and the gateway reports the bot's own voice state
JoinBudget == [NoBudget EXCEPT !.init = 1, !.join = MaxJoin, !.voice = 1]
JoinNext ==
    \/ ConnectNext
    \/ \E g \in Guilds, ch \in JoinChannels : HostJoin(g, ch)
    \/ LavalinkConnect
    \/ CreatePlayerInsert
    \/ CreatePlayerMoved
    \/ \E g \in Guilds : HostVoice("VOICE_STATE_UPDATE", g, TRUE, ChannelFound)
    \/ VoiceStart
    \/ VoiceMerge
SpecJoin == InitWith(JoinBudget) /\ [][JoinNext]_vars

\* the host sets the volume of a player
VolumeBudget == [NoBudget EXCEPT !.init = 1, !.join = 1, !.vol = MaxVolumeCalls]
VolumeNext ==
    \/ ConnectNext
    \/ PlayerNext
    \/ \E p \in PlayerIds, volume \in Volumes : HostSetVolume(p, volume)
    \/ SetVolume
    \/ SetVolumeDone
SpecVolume == InitWith(VolumeBudget) /\ [][VolumeNext]_vars

\* the host seeks in a player that has no track, or one it has played
SeekBudget == [NoBudget EXCEPT !.init = 1, !.join = 1, !.add = 1, !.play = MaxPlay,
                               !.seek = MaxSeek]
SeekNext ==
    \/ ConnectNext
    \/ PlayerNext
    \/ \E p \in PlayerIds, tr \in {t \in Tracks : ~t.bumped /\ t.id = 1} : HostAdd(p, tr)
    \/ \E p \in PlayerIds : HostPlay(p)
    \/ Play
    \/ PlaySeek
    \/ PlayDone
    \/ PlayStopped
    \/ HandleEvent
    \/ \E p \in PlayerIds, position \in SeekPositions : HostSeek(p, position)
    \/ Seek
    \/ SeekDone
SpecSeek == InitWith(SeekBudget) /\ [][SeekNext]_vars

(***************************************************************************)
(* Claims.                                                                  *)
(***************************************************************************)
\* the index of the last return of connect() before the j-th event of the
\* node's history, 0 if there is none
LastReturn(n, j) ==
    LET r == {i \in 1..(j - 1) : wire[n][i].ev = "connected"} IN
    IF r = {} THEN 0 ELSE CHOOSE i \in r : \A k \in r : k <= i
\* the events of the node's history between that return and the j-th event
Since(n, j) == SubSeq(wire[n], LastReturn(n, j) + 1, j - 1)
\* the ids of the host's data messages among the events of h that satisfy Sel
Ids(h, Sel(_)) ==
    LET d == SelectSeq(h, LAMBDA e : e.m.op = "data" /\ Sel(e)) IN
    [i \in 1..Len(d) |-> d[i].m.id]
IsQueuedSend(e) == e.ev = "send" /\ e.by = "send" /\ e.sock = 0

\* the positions in q of the members of w, in the order of w
Positions(w, q) == [i \in 1..Len(w) |-> CHOOSE k \in 1..Len(q) : q[k] = w[i]]
Increasing(f) == \A i, k \in 1..Len(f) : i < k => f[i] < f[k]
Sockets(n) == 1..Len(wsClosed[n])

\* C1: whenever a connect() returns, each data message the host sent while
\* the socket was absent or closed has been written, no socket got one of
\* them twice, each socket got them in the order of the send() calls, and the
\* outbound queue is empty
C1_QueuedSendsWrittenOnceInOrder ==
    \A n \in Nodes : \A j \in 1..Len(wire[n]) :
        wire[n][j].ev = "connected" =>
            LET queued == Ids(Since(n, j), IsQueuedSend)
                written(s) == Ids(Since(n, j),
                                  LAMBDA e : /\ e.ev = "write"
                                             /\ e.sock = s
                                             /\ e.m.id \in Range(queued))
            IN
            /\ \A s \in Sockets(n) : Increasing(Positions(written(s), queued))
            /\ \A d \in Range(queued) : \E s \in Sockets(n) : d \in Range(written(s))
            /\ (j = Len(wire[n]) /\ ~running => _queue[n] = <<>>)

\* the writes of configureResuming with the key k on the socket s of node n
ConfigureWrites(n, s, k) ==
    {i \in 1..Len(wire[n]) : /\ wire[n][i].ev = "write"
                             /\ wire[n][i].sock = s
                             /\ wire[n][i].m.op = "configureResuming"
                             /\ wire[n][i].m.key = k}

Tasks == Range(runq) \cup BagToSet(blocked)

\* C5: no player of a node's map is READY while the node is not READY
C5_NoReadyPlayerOnBusyNode ==
    \A n \in Nodes : \A p \in Range(players(n)) :
        pstate[p] = "READY" => state[n] = "READY"

\* C6: a disconnect() of a node that a disconnect() has already returned
\* from ends without an error
C6_SecondDisconnectSucceeds ==
    \A c \in calls : (c.call = "disconnect" /\ c.again) => c.res = "ok"

\* no other disconnect() of the node n has been called
OnlyDisconnect(n) ==
    /\ \A t \in Tasks : ~(t.kind = "disconnect" /\ t.n = n)
    /\ \A c \in calls : c.call = "disconnect" /\ c.n = n => c.res = "ok" /\ ~c.again
    /\ Cardinality({c \in calls : c.call = "disconnect" /\ c.n = n}) <= 1

\* C8: when the one disconnect() of a node returns, each player the node's
\* map held at the call is DISCONNECTING and out of the map
C8_DisconnectRemovesPlayers ==
    [][\A c \in calls' \ calls :
          (c.call = "disconnect" /\ c.res = "ok" /\ OnlyDisconnect(c.n)') =>
              \A p \in c.own : /\ pstate'[p] = "DISCONNECTING"
                               /\ \A i \in 1..Len(_player_dict'[c.n]) :
                                      _player_dict'[c.n][i].p # p]_vars

IsNullConfigure(e) == e.ev = "write" /\ e.m = ConfigureResuming(0)
IsClose(e) == e.ev = "close"
\* the history of node n has a close of socket s, and a write of
\* configureResuming with key=None on s comes before every close of s
NullBeforeClose(n, s) ==
    /\ \E j \in 1..Len(wire[n]) : IsClose(wire[n][j]) /\ wire[n][j].sock = s
    /\ \A j \in 1..Len(wire[n]) :
          (IsClose(wire[n][j]) /\ wire[n][j].sock = s) =>
              \E i \in 1..(j - 1) : IsNullConfigure(wire[n][i]) /\ wire[n][i].sock = s
\* what disconnect() itself has sent, it sent in state DISCONNECTING
DisconnectingFirst(n) ==
    \A i \in 1..Len(wire[n]) :
        (wire[n][i].by = "disconnect" /\ wire[n][i].ev \in {"send", "write"}) =>
            wire[n][i].st = "DISCONNECTING"
\* a disconnect() that was called on a READY node with resuming configured
\* and has gone past the closing of the socket
PastClose(t) ==
    /\ t.kind = "disconnect" /\ t.pc \in {"cancel", "final"}
    /\ t.st0 = "READY" /\ t.cfg0

\* C7: a disconnect() of a READY node with resuming configured makes the node
\* DISCONNECTING before anything else, and configureResuming with key=None
\* is written to the socket before the socket is closed
C7_NullConfigureBeforeClose ==
    \A t \in Tasks : PastClose(t) =>
        DisconnectingFirst(t.n) /\ NullBeforeClose(t.n, _ws[t.n])

\* C7, amended: the same, for a disconnect() called while the socket is open
C7_NullConfigureBeforeCloseOfOpenSocket ==
    \A t \in Tasks : (PastClose(t) /\ t.sock # 0) =>
        DisconnectingFirst(t.n) /\ NullBeforeClose(t.n, t.sock)

\* such a disconnect() has closed the socket itself
C7_Witness ==
    \E t \in Tasks :
        /\ PastClose(t) /\ t.sock # 0
        /\ \E j \in 1..Len(wire[t.n]) :
              IsClose(wire[t.n][j]) /\ wire[t.n][j].by = "disconnect"

\* C3: a get_node(guild) call returns the node whose map holds a player of
\* the guild, whatever ignore_ready_status is and whether the node is ready
C3_GetNodeReturnsOwner ==
    \A c \in calls : c.call = "get_node" => \A n \in c.own : c.res = "ok" /\ c.n = n

\* C4: no guild is in the player map of two nodes
C4_OneOwnerPerGuild ==
    \A g \in Guilds : Cardinality(owners(g)) <= 1

\* C9: the pool holds each node that was constructed and that no disconnect()
\* has returned from, once; after a close(), however it ended, none of the
\* nodes it found is in the pool
C9_PoolIsConstructedNotDisconnected ==
    /\ Range(_nodes) = {n \in 1..made : ~Disconnected(n)}
    /\ Len(_nodes) = Cardinality(Range(_nodes))
    /\ \A c \in calls : c.call = "close" => c.own \cap Range(_nodes) = {}

\* the voice events of guild g that the handlers of revision r have got
GatewayEvents(r, g) ==
    SelectSeq(wire[0], LAMBDA e : e.st = r /\ e.m.g = g /\ e.n # 0)
\* the voiceUpdate messages of guild g that the handlers of r have sent
VoiceSends(r, g) ==
    {e \in UNION {Range(wire[n]) : n \in Nodes} :
        e.ev = "send" /\ e.m.op = "voiceUpdate" /\ e.by = r /\ e.m.g = g}
VoiceSendCount(r, g) ==
    Cardinality(UNION {{<<n, i>> : i \in {j \in 1..Len(wire[n]) :
                                             wire[n][j] \in VoiceSends(r, g)}} :
                       n \in Nodes})
\* every voice event delivered has been handled to the end
VoiceIdle == \A t \in Tasks : t.kind \notin {"voice", "pvoice"}
Revisions == {"manager", "player"}

\* the events are a server update and a state update that satisfies Ok, in
\* either order
Handshake(E, Ok(_)) ==
    /\ Len(E) = 2
    /\ \E i, j \in 1..2 : /\ E[i].ev = "VOICE_SERVER_UPDATE"
                          /\ E[j].ev = "VOICE_STATE_UPDATE"
                          /\ Ok(E[j])
\* one voiceUpdate was sent, with the session id of the state update and the
\* payload of the server update
OneVoiceUpdate(r, g, E) ==
    /\ VoiceSendCount(r, g) = 1
    /\ \A e \in VoiceSends(r, g) : \E i, j \in 1..2 :
          /\ E[i].ev = "VOICE_SERVER_UPDATE" /\ e.m.ev = E[i].m.id
          /\ E[j].ev = "VOICE_STATE_UPDATE" /\ e.m.sid = E[j].m.id
VoiceHandshakeWith(Ok(_)) ==
    \A r \in Revisions, g \in Guilds :
        LET E == GatewayEvents(r, g) IN
        /\ (VoiceIdle /\ Handshake(E, Ok)) => OneVoiceUpdate(r, g, E)
        /\ Len(E) = 1 => VoiceSendCount(r, g) = 0
NonNullChannel(e) == e.sock # 0
OwnFoundChannel(e) == e.sock = ChannelFound /\ e.by = "me"

C11_DisconnectingIsTerminal ==
    [][\A n \in Nodes : state[n] = "DISCONNECTING" =>
          /\ state'[n] = "DISCONNECTING"
          /\ ready'[n] => ready[n]]_vars

\* the send() call that the j-th event of node n, a write, comes from: the
\* call itself, or for a write of the queue's replay the call that queued
\* the message
Origin(n, j) ==
    IF wire[n][j].by # "flush" THEN j - 1
    ELSE LET q == {i \in 1..(j - 1) : /\ wire[n][i].ev = "send"
                                      /\ wire[n][i].sock = 0
                                      /\ wire[n][i].by # "flush"
                                      /\ wire[n][i].m = wire[n][j].m} IN
         IF q = {} THEN 0 ELSE CHOOSE i \in q : \A k \in q : k <= i
WritesOn(n, s) == {j \in 1..Len(wire[n]) : wire[n][j].ev = "write" /\ wire[n][j].sock = s}

\* C12: on each socket of a node the messages are written in the order of
\* the send() calls they come from
C12_WritesInSendOrder ==
    \A n \in Nodes : \A s \in Sockets(n) : \A i, j \in WritesOn(n, s) :
        i < j => Origin(n, i) <= Origin(n, j)

\* the step is the first one of a play(), up to its send
PlayStep == At("play", "start") /\ wire' # wire
\* what the step has added to the history of node n
NewEvents(n) == SubSeq(wire'[n], Len(wire[n]) + 1, Len(wire'[n]))
PlaySends(h) == SelectSeq(h, LAMBDA e : e.ev = "send" /\ e.m.op = "play")

\* C13: a play() with repeat off and a non-empty queue makes the head of the
\* queue the current track, leaves the rest of the queue, resets position and
\* paused, and sends one play message with the identifier of that track; no
\* other step of a play() sends a play message
C13_PlayPopsQueueHead ==
    [][/\ (PlayStep /\ ~deck[Cur.p].repeat /\ deck[Cur.p].queue # <<>>) =>
            LET p == Cur.p
                q == deck[p].queue
                sent == PlaySends(NewEvents(Cur.n)) IN
            /\ deck'[p].current = Head(q)
            /\ deck'[p].queue = Tail(q)
            /\ deck'[p].position = 0
            /\ ~deck'[p]._paused
            /\ Len(sent) = 1
            /\ sent[1].m.g = pguild[p] /\ sent[1].m.id = Head(q).id
       /\ \A n \in Nodes : PlaySends(NewEvents(n)) # <<>> => PlayStep]_vars

\* the host has played a queue of two tracks with repeat off, and after the
\* node reported the end of the first track the second one is current
C13_Witness ==
    \E p \in 1..Len(pstate) :
        /\ ~deck[p].repeat
        /\ deck[p].current # NoTrack /\ deck[p].queue = <<>>
        /\ \A v \in {"host", "TrackEndEvent"} :
              \E c \in calls : c.call = "play" /\ c.via = v /\ c.g = pguild[p] /\ c.res = "ok"

\* the step is the one of a handle_event(): the task ends or goes on
HandleEventStep == At("handle_event", "start") /\ (Len(runq') < Len(runq) \/ running')
\* the running task has become a play() of player p at its first statement
BecomesPlay(p) ==
    /\ running' /\ Len(runq') = Len(runq) /\ Tail(runq') = Tail(runq)
    /\ Head(runq').kind = "play" /\ Head(runq').pc = "start"
    /\ Head(runq').p = p /\ Head(runq').n = pnode[p] /\ Head(runq').g = pguild[p]

\* C14: a handle_event(TRACK_END, FINISHED) changes nothing itself and goes
\* on as a play() of its player; a handle_event(TRACK_END, r) with another
\* reason leaves queue and current as they are, sends nothing and starts no
\* play()
C14_TrackEndFinishedPlays ==
    [][(HandleEventStep /\ Cur.via = "TrackEndEvent") =>
          IF Cur.res = "FINISHED"
          THEN /\ BecomesPlay(Cur.p)
               /\ deck' = deck /\ wire' = wire /\ _queue' = _queue
          ELSE /\ Cur.res \in TrackEndReasons
               /\ deck'[Cur.p].queue = deck[Cur.p].queue
               /\ deck'[Cur.p].current = deck[Cur.p].current
               /\ wire' = wire /\ _queue' = _queue
               /\ runq' = Tail(runq) /\ blocked' = blocked]_vars

\* a track has ended for another reason than FINISHED while a track was
\* waiting in the queue: the track that ended is still current
C14_Witness ==
    \E p \in 1..Len(pstate) :
        /\ deck[p].current # NoTrack /\ ~deck[p]._is_playing
        /\ deck[p].queue # <<>>
        /\ budget.frame = 0

\* the step is the one of a force_shuffle()
ForceShuffleStep == At("force_shuffle", "start") /\ Len(runq') < Len(runq)
\* how often the track t is in the queue q
Count(q, t) == Cardinality({i \in 1..Len(q) : q[i] = t})

\* C15: a force_shuffle(sticky_songs) leaves the first max(0, sticky_songs)
\* entries of the queue where they are, and the queue it leaves has the
\* length and the tracks, as often, of the queue it found
C15_ShuffleKeepsStickyAndTracks ==
    [][ForceShuffleStep =>
          LET before == deck[Cur.p].queue
              after == deck'[Cur.p].queue
              sticky == IF Cur.idx > 0 THEN Cur.idx ELSE 0 IN
          /\ Len(after) = Len(before)
          /\ \A i \in 1..Len(before) : i <= sticky => after[i] = before[i]
          /\ \A t \in Tracks : Count(after, t) = Count(before, t)]_vars

\* a force_shuffle(1) with shuffle_bumped off has found a full queue and has
\* changed the order of the tracks behind the first one
C15_Witness ==
    \E c \in calls : \E p \in 1..Len(pstate) :
        /\ c.call = "force_shuffle" /\ c.sticky_songs = 1 /\ c.g = pguild[p]
        /\ Len(c.queue) = MaxShuffled
        /\ ~deck[p].shuffle_bumped
        /\ deck[p].queue # c.queue
        /\ deck[p].queue[1] = c.queue[1]

\* the step is the one of a handle_player_update()
PlayerUpdateStep == At("handle_player_update", "start") /\ Len(runq') < Len(runq)

\* C16: a handle_player_update() with a position that is not behind the
\* stored one does not move the stored position back, and one with a position
\* at or behind the stored one leaves the stored position as it is
C16_PositionOnlyMovesForward ==
    [][PlayerUpdateStep =>
          LET stored == deck[Cur.p].position
              reported == Cur.idx IN
          /\ reported >= stored => deck'[Cur.p].position >= stored
          /\ reported <= stored => deck'[Cur.p].position = stored]_vars

\* the step is one of the running _multi_try_connect(): env and host steps
\* make the run queue longer
MtcStep(pc) == At("mtc", pc) /\ Len(runq') <= Len(runq)
\* the _multi_try_connect() of the step waits at pc after the step
MtcWaitsAt(pc) == [Cur EXCEPT !.pc = pc] \in BagToSet(blocked')
\* no task of the attempt id of node n is left after the step
MtcOver(n, id) ==
    \A t \in Range(runq') \cup BagToSet(blocked') :
        ~(t.kind = "mtc" /\ t.n = n /\ t.id = id)

\* C17: a handshake attempt that ends in OSError is followed by a sleep and,
\* if the node is not shut down then, by another attempt; a handshake attempt
\* that is rejected ends _multi_try_connect() without a socket, and the
\* connect() that gets no socket raises and leaves state and ready flag alone
C17_RetryOnOSErrorOnly ==
    [][/\ (MtcStep("ws_connect") /\ Cur.res = "oserror") => MtcWaitsAt("sleep")
       /\ (MtcStep("loop") /\ Cur.res = "oserror" /\ ~_is_shutdown[Cur.n]) =>
             MtcWaitsAt("ws_connect")
       /\ (MtcStep("ws_connect") /\ Cur.res = "handshake") =>
             /\ MtcOver(Cur.n, Cur.id)
             /\ _ws' = _ws /\ state' = state /\ ready' = ready
             /\ \A t \in Range(runq') \ Range(runq) :
                   t.kind = "connect" /\ t.pc = "after_mtc" /\ t.res = "none"
       /\ (At("connect", "after_mtc") /\ Cur.res = "none" /\ Len(runq') < Len(runq)) =>
             /\ Done(Cur, "TimeoutError") \in calls'
             /\ state' = state /\ ready' = ready
             /\ state[Cur.n] # "READY"]_vars

\* two attempts of a connect() have ended in OSError and the third was
\* rejected: the connect() has raised, with no deadline expired and no
\* disconnect() called, and the node is not READY
C17_Witness ==
    \E n \in Nodes :
        /\ budget.fail = 0 /\ budget.reject = 0
        /\ budget.timeout = MaxTimeout /\ budget.disc = 1 /\ budget.drop = MaxDrop
        /\ \E c \in calls : c.call = "connect" /\ c.n = n /\ c.res = "TimeoutError"
        /\ state[n] # "READY" /\ ~ready[n]

\* the deadline of the connect(timeout) of initialize() has expired and the
\* call has raised; no disconnect() has been called
TimedOut(n) ==
    /\ budget.timeout < MaxTimeout /\ budget.disc = AttemptBudget.disc
    /\ \E c \in calls : /\ c.call = "connect" /\ c.via = "initialize"
                        /\ c.n = n /\ c.res = "TimeoutError"

\* C18: after a connect(timeout) of a new node has failed with a timeout, the
\* node's state, ready flag, socket and outbound queue are those of the new
\* node, whatever the abandoned attempt has done since
C18_TimeoutLeavesNodeUntouched ==
    \A n \in Nodes : TimedOut(n) =>
        /\ state[n] = "CONNECTING" /\ ~ready[n]
        /\ _ws[n] = 0
        /\ _queue[n] = <<>>

\* the step is one of the running task of the kind at pc: it goes on, or it
\* leaves the head of the run queue, while a step of the host keeps the queue
\* and may append to it
KeepsQueue == Len(runq) <= Len(runq') /\ SubSeq(runq', 1, Len(runq)) = runq
TaskStep(kind, pc) == At(kind, pc) /\ (running' \/ ~KeepsQueue)
\* the step changes no attribute of a node or a player
DropsFrame == nodeVars' = nodeVars /\ playerVars' = playerVars /\ blocked' = blocked
\* the listener of the step goes on with its loop, and no task is created
ListenerGoesOn ==
    runq' = <<[Cur EXCEPT !.pc = "loop", !.res = "", !.f = NoFrame]>> \o Tail(runq)

\* C19: a text frame with an unknown op or a body that is not JSON is dropped
\* by the listener, which goes on with its loop; a frame with an unknown
\* event type or without a guild id is dropped by _handle_op
C19_BadFrameIsDropped ==
    [][/\ (TaskStep("listener", "receive") /\ Cur.res = "TEXT"
             /\ Cur.f.op \notin LavalinkIncomingOp) =>
             DropsFrame /\ ListenerGoesOn
       /\ (TaskStep("_handle_op", "start")
             /\ \/ Cur.f.op = "event" /\ Cur.f.type \notin LavalinkEvents
                \/ Cur.f.op \in {"event", "playerUpdate"} /\ Cur.f.g = 0) =>
             DropsFrame /\ runq' = Tail(runq)]_vars

\* no node of the pool has a player of the guild
NoPlayerAnywhere(g) == \A n \in Range(_nodes) : g \notin guild_ids(n)

\* C20: the dispatch() of an event or a player update for a guild that no
\* node of the pool has a player of creates no listener task and returns
\* without an error
C20_UnresolvedDispatchIsDropped ==
    [][(/\ TaskStep("_handle_op", "start")
        /\ Cur.f.op \in {"event", "playerUpdate"}
        /\ Cur.f.op = "event" => Cur.f.type \in LavalinkEvents
        /\ Cur.f.g \in Guilds /\ NoPlayerAnywhere(Cur.f.g)) =>
          /\ runq' = Tail(runq)
          /\ \A c \in calls' \ calls : c.call = "dispatch" /\ c.res = "dropped"]_vars

\* the other registries are as they were before the step
OthersKept(r) == \A o \in Registries \ {r} : _listeners'[o] = _listeners[o]

\* C21: no callback is twice in a registry; a register call with something
\* that is not a coroutine function raises and leaves the registries alone,
\* one with a registered callback leaves them alone, one with a new callback
\* appends it; an unregister call with a callback that is not registered
\* leaves them alone, one with a registered callback takes it out
C21_RegistriesAreSets ==
    [][/\ \A r \in Registries : Len(_listeners'[r]) = Cardinality(Range(_listeners'[r]))
       /\ \A c \in calls' \ calls :
             c.call \in {"register", "unregister"} =>
                LET after == _listeners'[c.via] IN
                /\ OthersKept(c.via)
                /\ IF c.call = "register"
                   THEN IF ~iscoroutinefunction(c.coro)
                        THEN c.res = "TypeError" /\ after = c.listeners
                        ELSE /\ c.res = "ok"
                             /\ c.coro \in Range(c.listeners) => after = c.listeners
                             /\ c.coro \notin Range(c.listeners) =>
                                   after = Append(c.listeners, c.coro)
                   ELSE /\ c.res = "ok"
                        /\ c.coro \notin Range(c.listeners) => after = c.listeners
                        /\ Range(after) = Range(c.listeners) \ {c.coro}]_vars

\* the host has registered a callback twice for the stats, and the node's
\* stats frame has invoked it once
C21_Witness ==
    /\ \E c \in calls : /\ c.call = "register" /\ c.via = "stats" /\ c.res = "ok"
                        /\ c.coro \in Range(c.listeners)
    /\ _listeners.stats = <<"callback">>
    /\ \E c \in calls : c.call = "callback" /\ c.via = "stats"
    /\ \A t \in Range(runq) \cup BagToSet(blocked) : t.kind # "callback"
    /\ budget.frame = 0

\* the places in the pool of the nodes get_node looks at
Candidates(ign) == {i \in 1..Len(_nodes) : ign \/ ready[_nodes[i]]}
\* the number of guilds of the node at place i of the pool
Load(i) == Cardinality(guild_ids(_nodes[i]))

\* C22: a get_node call for a guild that no node of the pool has a player of
\* raises IndexError if there is no candidate, and else returns the first
\* node in the pool among the candidates with the fewest guilds
C22_GetNodeReturnsLeastUsed ==
    [][\A c \in calls' \ calls :
          (c.call = "get_node" /\ NoPlayerAnywhere(c.g)) =>
             LET cand == Candidates(c.via = "ignore_ready") IN
             IF cand = {} THEN c.res = "IndexError"
             ELSE /\ c.res = "ok"
                  /\ \E i \in cand :
                        /\ _nodes[i] = c.n
                        /\ \A k \in cand : Load(k) > Load(i) \/ (Load(k) = Load(i) /\ k >= i)]_vars

\* for a guild without a player, a call has returned the second node of the
\* pool, while the first one has a player and both are ready
C22_Witness ==
    \E c \in calls :
        /\ c.call = "get_node" /\ c.res = "ok" /\ c.via = "ready_only"
        /\ NoPlayerAnywhere(c.g)
        /\ Len(_nodes) = 2 /\ c.n = _nodes[2]
        /\ Load(1) > 0 /\ Load(2) = 0
        /\ \A i \in 1..2 : ready[_nodes[i]]

\* C23: create_player() for a guild that already has a player in the node's
\* map looks that player up, moves it to the channel of the call and leaves
\* the map and the number of players as they were; the player it returns is
\* the guild's player in the map; no guild is ever the key of two entries of
\* a node's map.
UniqueKeys ==
    \A n \in Nodes : \A i, j \in 1..Len(_player_dict[n]) :
        _player_dict[n][i].g = _player_dict[n][j].g => i = j
CreateAgain ==
    /\ TaskStep("lconnect", "start")
    /\ get_node(Cur.g, FALSE) # 0
    /\ Cur.g \in guild_ids(get_node(Cur.g, FALSE))
C23_CreatePlayerIsIdempotent ==
    [][/\ CreateAgain =>
            LET n == get_node(Cur.g, FALSE)
                p == get_player(n, Cur.g) IN
                /\ _player_dict' = _player_dict
                /\ Len(pstate') = Len(pstate)
                /\ deck'[p].channel = Cur.ch
                /\ \E t \in Range(runq') \cup BagToSet(blocked') :
                       t.kind = "lconnect" /\ t.pc = "created" /\ t.p = p
                                           /\ t.g = Cur.g /\ t.n = n
       /\ TaskStep("lconnect", "created") =>
                /\ _player_dict' = _player_dict
                /\ Len(pstate') = Len(pstate)
                /\ Cur.g \in guild_ids(Cur.n)
                /\ get_player(Cur.n, Cur.g) = Cur.p
       /\ UniqueKeys']_vars

\* C24: a voice server update never makes a player; a voice state update of
\* the bot's own user that names a channel leaves the guild with exactly one
\* player in the manager's map, made by the update if the guild had none,
\* and that player's channel is the channel the update names.
VoiceStep(kind) == TaskStep("voice", "start") /\ Cur.via = kind
PlayersOf(d, g) == {i \in 1..Len(d) : d[i].g = g}
C24_VoiceStateCreatesPlayer ==
    [][LET n == get_node(str_guild_id(Cur.g), TRUE) IN
       /\ VoiceStep("VOICE_SERVER_UPDATE") =>
              /\ _player_dict' = _player_dict
              /\ Len(pstate') = Len(pstate)
       /\ (VoiceStep("VOICE_STATE_UPDATE") /\ Cur.me /\ Cur.ch # 0 /\ n # 0) =>
              /\ Cardinality(PlayersOf(_player_dict'[n], Cur.g)) = 1
              /\ \A i \in PlayersOf(_player_dict'[n], Cur.g) :
                     deck'[_player_dict'[n][i].p].channel = Cur.ch
              /\ Len(pstate') = IF Cur.g \in guild_ids(n) THEN Len(pstate)
                                                          ELSE Len(pstate) + 1]_vars

\* C25: when the connect() of a fresh node returns and the first ws_connect
\* of that call was accepted, the call has made that one handshake attempt
\* only, to the node's ws://host:port with the headers Authorization,
\* User-Id, Num-Shards and, the resume key being known, Resume-Key, and the
\* node's socket is open.
ConnectReturns ==
    TaskStep("connect", "flush") /\ Cur.idx >= Len(_queue[Cur.n])
FirstAccepted(n, cid) == \E c \in Attempts(n, cid) : c.k = 1 /\ c.res = "ok"
SocketOpen(n) == _ws[n] # 0 /\ ~wsClosed[n][_ws[n]]
C25_FreshConnectOneHandshake ==
    [][(ConnectReturns /\ Cur.via = "initialize" /\ FirstAccepted(Cur.n, Cur.id)) =>
          /\ Cardinality(Attempts(Cur.n, Cur.id)) = 1
          /\ \A c \in Attempts(Cur.n, Cur.id) :
                /\ c.uri = uri(Cur.n)
                /\ c.headers = {"Authorization", "User-Id", "Num-Shards"}
                                  \cup (IF resume_key(Cur.n) # 0
                                        THEN {"Resume-Key"} ELSE {})
          /\ SocketOpen(Cur.n)]_vars

\* the play() of player p finds nothing to play: the queue is empty and
\* repeat puts no current track back
NothingToPlay(p) ==
    deck[p].queue = <<>> /\ ~(deck[p].repeat /\ deck[p].current # NoTrack)
StopSends(h) == SelectSeq(h, LAMBDA e : e.ev = "send" /\ e.m.op = "stop")

\* C26: a play() that finds nothing to play sends no play message and goes
\* on as stop(), which sends one stop message for the player's guild; when
\* stop() is over the queue is empty, there is no current track, position is
\* 0 and paused is false, and stop() has sent no second stop message.
C26_PlayOnEmptyQueueStops ==
    [][/\ (PlayStep /\ NothingToPlay(Cur.p)) =>
            LET sent == StopSends(NewEvents(Cur.n)) IN
            /\ \A n \in Nodes : PlaySends(NewEvents(n)) = <<>>
            /\ Len(sent) = 1 /\ sent[1].m.g = pguild[Cur.p]
            /\ \A n \in Nodes \ {Cur.n} : StopSends(NewEvents(n)) = <<>>
            /\ \E t \in Range(runq') \cup BagToSet(blocked') :
                   t.kind = "play" /\ t.pc = "stopped" /\ t.p = Cur.p
       /\ TaskStep("play", "stopped") =>
            /\ deck'[Cur.p].queue = <<>>
            /\ deck'[Cur.p].current = NoTrack
            /\ deck'[Cur.p].position = 0
            /\ ~deck'[Cur.p]._paused
            /\ \A n \in Nodes : StopSends(NewEvents(n)) = <<>>]_vars
\* a play() on an empty queue is over: its stop message is in the history of
\* the node and the player is reset
C26_Witness ==
    \E p \in 1..Len(pstate) :
        /\ \E c \in calls : c.call = "play" /\ c.via = "host" /\ c.g = pguild[p]
        /\ \E i \in 1..Len(wire[pnode[p]]) :
              /\ wire[pnode[p]][i].ev = "send" /\ wire[pnode[p]][i].m.op = "stop"
              /\ wire[pnode[p]][i].m.g = pguild[p]
        /\ PlaySends(wire[pnode[p]]) = <<>>
        /\ deck[p].queue = <<>> /\ deck[p].current = NoTrack
        /\ deck[p].position = 0 /\ ~deck[p]._paused

\* C27: a play() with repeat on and a current track c makes the head of
\* (queue with c appended) the current track and leaves the rest as the
\* queue, so that queue plus current hold the same tracks, as often, before
\* and after; it sends a play message and no stop message; on an empty queue
\* c is current again.
C27_RepeatRequeuesCurrent ==
    [][(PlayStep /\ deck[Cur.p].repeat /\ deck[Cur.p].current # NoTrack) =>
          LET p == Cur.p
              c == deck[p].current
              q == deck[p].queue
              before == Append(q, c)
              after == Append(deck'[p].queue, deck'[p].current) IN
          /\ deck'[p].current = Head(before)
          /\ deck'[p].queue = Tail(before)
          /\ \A t \in Range(before) \cup Range(after) : Count(after, t) = Count(before, t)
          /\ q = <<>> => deck'[p].current = c /\ deck'[p].queue = <<>>
          /\ \A n \in Nodes : StopSends(NewEvents(n)) = <<>>
          /\ Len(PlaySends(NewEvents(Cur.n))) = 1
          /\ \A t \in Range(runq') \cup BagToSet(blocked') :
                 t.kind = "play" /\ t.p = p => t.pc # "stopped"]_vars
\* with repeat on, the track that was current when a queue of two ended its
\* first track is at the tail of the queue, behind no other track, while the
\* second one plays
C27_Witness ==
    \E p \in 1..Len(pstate) :
        /\ deck[p].repeat
        /\ Len(deck[p].queue) = 1 /\ deck[p].current # NoTrack
        /\ deck[p].queue[1] # deck[p].current
        /\ \A v \in {"host", "TrackEndEvent"} :
              \E c \in calls : c.call = "play" /\ c.via = v /\ c.g = pguild[p] /\ c.res = "ok"

\* the volume messages among the events h
VolumeSends(h) == SelectSeq(h, LAMBDA e : e.ev = "send" /\ e.m.op = "volume")

\* C28: a set_volume(v) stores min(max(v, 0), 150) and sends one volume
\* message, for the player's guild, that carries this value; no other step
\* sends a volume message, and the stored volume of every player is within
\* 0..150 at all times.
C28_VolumeIsClamped ==
    [][/\ TaskStep("set_volume", "start") =>
            LET v == Cur.idx
                clamped == IF v < 0 THEN 0 ELSE IF v > 150 THEN 150 ELSE v
                sent == VolumeSends(NewEvents(Cur.n)) IN
            /\ deck'[Cur.p]._volume = clamped
            /\ Len(sent) = 1
            /\ sent[1].m.g = pguild[Cur.p] /\ sent[1].m.id = clamped
       /\ \A n \in Nodes :
            VolumeSends(NewEvents(n)) # <<>> => TaskStep("set_volume", "start")
       /\ \A p \in PlayerIds : deck'[p]._volume \in 0..150]_vars
\* set_volume() has returned after a call with a volume below the range and
\* after one with a volume above it: both clamped values were sent
C28_Witness ==
    \E p \in 1..Len(pstate) :
        /\ \E c \in calls : c.call = "set_volume" /\ c.g = pguild[p] /\ c.res = "ok"
        /\ \A t \in Tasks : t.kind # "set_volume"
        /\ budget.vol = 0
        /\ {e.m.id : e \in Range(VolumeSends(wire[pnode[p]]))} = {0, 150}
        /\ deck[p]._volume \in {0, 150}

\* the seek messages among the events h
SeekSends(h) == SelectSeq(h, LAMBDA e : e.ev = "send" /\ e.m.op = "seek")
\* the step is one in which a seek() decides: the one of the host, or the one
\* play() makes for a track with a start_timestamp
SeekStep ==
    \/ TaskStep("seek", "start")
    \/ TaskStep("play", "seek") /\ Cur.idx > 0

\* C29: a seek(p) on a seekable current track sends one seek message, for
\* the player's guild, with the position min(max(p, 0), track length); a
\* seek on any other current track sends nothing and changes nothing of the
\* node or the player; a seek message is sent by no other step.
C29_SeekOnlyWhenSeekable ==
    [][/\ SeekStep =>
            LET current == deck[Cur.p].current
                p == Cur.idx
                sent == SeekSends(NewEvents(Cur.n)) IN
            IF current # NoTrack /\ current.seekable
            THEN /\ Len(sent) = 1
                 /\ sent[1].m.g = pguild[Cur.p]
                 /\ sent[1].m.id = Min(Max(p, 0), current.length)
            ELSE /\ wire' = wire
                 /\ nodeVars' = nodeVars /\ playerVars' = playerVars
       /\ \A n \in Nodes : SeekSends(NewEvents(n)) # <<>> =>
              SeekStep /\ deck[Cur.p].current.seekable]_vars
\* the host has sought before the start, and behind the end, of a seekable
\* track that is current, and the position sent is inside the track
C29_Witness ==
    \E p \in 1..Len(pstate) :
        /\ deck[p].current.seekable /\ deck[p].current.length = MaxPosition
        /\ \E c \in calls : c.call = "seek" /\ c.g = pguild[p] /\ c.res = "ok"
        /\ \E e \in Range(SeekSends(wire[pnode[p]])) :
              e.by = "seek" /\ e.m.id \in {0, MaxPosition}

\* no connect() of node n has returned yet
NeverConnected(n) == \A i \in 1..Len(wire[n]) : wire[n][i].ev # "connected"
EnteredFrom(n, to) == IF state'[n] = to /\ state[n] # to THEN {state[n]} ELSE {}
\* RECONNECTING is not entered from CONNECTING
ReconnectingNotFromConnecting ==
    \A n \in Nodes : "CONNECTING" \notin EnteredFrom(n, "RECONNECTING")
\* until its first connect() returns, a node that is CONNECTING is not made
\* RECONNECTING or READY by any step, failed attempts included
ConnectingUntilConnected ==
    \A n \in Nodes : (NeverConnected(n)' /\ state[n] = "CONNECTING") =>
                        state'[n] \in {"CONNECTING", "DISCONNECTING"}
\* READY is entered from CONNECTING or RECONNECTING only
ReadyFromConnecting ==
    \A n \in Nodes : EnteredFrom(n, "READY") \subseteq {"CONNECTING", "RECONNECTING"}

\* C30: no step takes a node from CONNECTING to RECONNECTING; a node whose
\* first connect() has not returned stays CONNECTING through every attempt
\* that fails; and a node becomes READY from CONNECTING or RECONNECTING only.
C30_ReconnectingOnlyAfterReady ==
    [][/\ ReconnectingNotFromConnecting
       /\ ConnectingUntilConnected
       /\ ReadyFromConnecting]_vars

\* the state handler tasks of node n that wait in q, in the order of creation
HandlersOf(q, n) == SelectSeq(q, LAMBDA t : t.kind = "handler" /\ t.n = n)
\* the step is the run of a state handler of node n
HandlerRuns(n) == TaskStep("handler", "start") /\ Cur.n = n

ReconnectsOf(q, n) == Len(SelectSeq(q, LAMBDA t : t.kind = "reconnect" /\ t.n = n))
\* the receive loop of node n ends on a close or error frame
ListenerEnds(n) ==
    TaskStep("listener", "receive") /\ Cur.n = n /\ Cur.res \in {"CLOSE", "ERROR"}
\* the receive loop of node n ends because its loop condition fails
ListenerExits(n) ==
    TaskStep("listener", "loop") /\ Cur.n = n /\ _is_shutdown[n] = TRUE
ReconnectRuns(n) == TaskStep("reconnect", "start") /\ Cur.n = n
\* the connect() calls of node n made by _reconnect() that have not begun
ReconnectAttempts(q, n) ==
    {i \in DOMAIN q : q[i].kind = "connect" /\ q[i].n = n /\ q[i].via = "reconnect"
                      /\ q[i].pc = "start"}

\* C32: the end of a node's receive loop on a close or error frame schedules
\* exactly one _reconnect(), whether or not resuming was configured; a
\* _reconnect() that runs while the node is not shut down begins exactly one
\* connect(), one that runs while the node is shut down ends without creating
\* any task or writing anything, and nothing else schedules a _reconnect() or
\* begins a reconnecting connect().
C32_OneReconnectPerLoopEnd ==
    [][\A n \in Nodes :
          LET before == ReconnectsOf(runq, n)
              after == ReconnectsOf(runq', n) IN
          /\ ListenerEnds(n) => after = before + 1
          /\ ReconnectRuns(n) =>
                /\ after = before - 1
                /\ IF _is_shutdown[n] = TRUE
                   THEN /\ runq' = Tail(runq)
                        /\ blocked' = blocked
                        /\ wire' = wire
                        /\ ~running'
                   ELSE /\ running'
                        /\ ReconnectAttempts(runq', n) = {1}
                        /\ Len(runq') = Len(runq) + Len(update_state_tasks(n, reconnect_state(n)))
          /\ ~ReconnectRuns(n) =>
                /\ Cardinality(ReconnectAttempts(runq', n))
                      <= Cardinality(ReconnectAttempts(runq, n))
                /\ after = before \/ ListenerEnds(n) \/ ListenerExits(n)]_vars
\* a reconnecting connect() is in progress on a node that is not shut down and
\* whose resuming was not configured when the socket was lost
C32_Witness ==
    \E n \in Nodes : \E t \in Range(runq) \cup BagToSet(blocked) :
        /\ t.kind = "connect" /\ t.n = n /\ t.via = "reconnect"
        /\ _resuming_configured[n] = FALSE
        /\ _is_shutdown[n] = FALSE

\* the host's data messages that Node.send() put on the queue of node n
QueuedData(n) ==
    {wire[n][i].m : i \in {j \in 1..Len(wire[n]) : IsQueuedSend(wire[n][j])}}
WrittenData(n) ==
    {wire[n][i].m : i \in {j \in 1..Len(wire[n]) : wire[n][j].ev = "write"}}
\* the receive loop of a READY node has ended: its _reconnect() is scheduled
LostWhileReady(n) == state[n] = "READY" /\ ReconnectsOf(runq, n) > 0
\* the node is READY on an open socket and nothing is left to write
Recovered(n) ==
    /\ state[n] = "READY"
    /\ ready[n]
    /\ ~SocketUnusable(n)
    /\ _queue[n] = <<>>
    /\ QueuedData(n) \subseteq WrittenData(n)

\* C33: when the receive loop of a READY node has ended on a close or error
\* frame and disconnect() is never called, the node is eventually READY again
\* on an open socket with an empty queue and every message that send() queued
\* written
C33_ReadyAgainAfterLoss ==
    \A n \in Nodes : LostWhileReady(n) ~> Recovered(n)

\* the category of a frame, and the kind of task a registered listener runs as
CategoryOf(op) == CASE op = "event" -> "event"
                    [] op = "playerUpdate" -> "update"
                    [] OTHER -> "stats"
TaskKindOf(coro) == CASE coro = "_handle_event" -> "handle_event"
                      [] coro = "_handle_update" -> "handle_player_update"
                      [] OTHER -> "callback"
\* the tasks the step has added to the run queue
Created == SubSeq(runq', Len(runq), Len(runq'))
\* a listener of the host starts: it returns, raises or hangs
CallbackRuns == TaskStep("callback", "start")

\* C34: a dispatch whose target resolves creates one task per listener of the
\* frame's category, in the order of the registry, each for the frame's op and
\* guild, and no other task; a listener of the host that returns, raises or
\* never finishes takes only itself out of the run queue: every other task
\* that is ready or waiting, the node's receive loop among them, is kept, and
\* no attribute of a node or a player changes
C34_DispatchSchedulesEachListener ==
    [][/\ \A c \in calls' \ calls :
             (c.call = "dispatch" /\ c.res = "ok") =>
                LET registered == _listeners[CategoryOf(c.via)] IN
                /\ TaskStep("_handle_op", "start")
                /\ Len(Created) = Len(registered)
                /\ \A i \in 1..Len(registered) :
                      /\ Created[i].kind = TaskKindOf(registered[i])
                      /\ Created[i].pc = "start"
                      /\ Created[i].g = c.g
                      /\ Created[i].kind = "callback" => Created[i].via = c.via
       /\ CallbackRuns =>
             /\ runq' = Tail(runq)
             /\ \A t \in BagToSet(blocked) : CopiesIn(t, blocked') >= CopiesIn(t, blocked)
             /\ nodeVars' = nodeVars
             /\ playerVars' = playerVars]_vars
\* a listener of an event frame hangs, the player's own handler of the frame
\* has run, and the listener of the later stats frame has run and raised
C34_Witness ==
    /\ \E t \in BagToSet(blocked) : t.kind = "callback" /\ t.pc = "hang" /\ t.via = "event"
    /\ \E c \in calls : c.call = "callback" /\ c.res = "Exception" /\ c.via = "stats"
    /\ Len(_listeners.event) = 2
    /\ budget.frame = 0
    /\ runq = <<>>

\* the voiceUpdate messages that the voice handlers pass to Node.send() in the
\* step, for node n
VoiceUpdateSends(n) ==
    SelectSeq(NewEvents(n), LAMBDA e : /\ e.ev = "send" /\ e.m.op = "voiceUpdate"
                                       /\ e.by \in Revisions)
\* the places in the history of node n of the voiceUpdate messages of the
\* handlers of r for guild g
VoiceSendPlaces(n, r, g) ==
    {i \in 1..Len(wire[n]) : /\ wire[n][i].ev = "send" /\ wire[n][i].m.op = "voiceUpdate"
                             /\ wire[n][i].by = r /\ wire[n][i].m.g = g}

\* C35: the step that sends a voiceUpdate leaves the guild's voice aggregate
\* without a server-update payload and without a session id (voice_states of
\* the manager, _pending_server_update and _session_id of the player), and no
\* two voiceUpdate messages of a guild carry the same payload or the same
\* session id
C35_MergeClearsAggregate ==
    [][\A n \in Nodes :
          /\ \A i \in 1..Len(VoiceUpdateSends(n)) :
                LET e == VoiceUpdateSends(n)[i] IN
                IF e.by = "manager"
                THEN voice_states'[n][e.m.g] = NoVoice
                ELSE /\ _session_id'[Cur.p] = 0
                     /\ _pending_server_update'[Cur.p] = 0
          /\ \A r \in Revisions, g \in Guilds :
                \A i, j \in VoiceSendPlaces(n, r, g) :
                   i < j => /\ wire[n][i].m.ev # wire[n][j].m.ev
                            /\ wire[n][i].m.sid # wire[n][j].m.sid]_vars

\* the handler of a voice state update of the bot's own user with a null
\* channel id takes its last step
NullChannelEnds(kind) ==
    /\ TaskStep(kind, "merge")
    /\ Cur.via = "VOICE_STATE_UPDATE" /\ Cur.me /\ Cur.ch = 0

\* C36: when the handling of a voice state update of the bot's own user with
\* a null channel id ends, it sends no voiceUpdate, the guild's aggregate has
\* neither a server-update payload nor a session id, and the guild's player,
\* if there was one, is DISCONNECTING and is not the guild's entry in its
\* node's player map
C36_NullChannelTearsDown ==
    [][\A kind \in {"voice", "pvoice"} :
          NullChannelEnds(kind) =>
             LET n == Cur.n
                 g == Cur.g
                 p == Cur.p IN
             /\ VoiceUpdateSends(n) = <<>>
             /\ kind = "voice" => voice_states'[n][g] = NoVoice
             /\ kind = "pvoice" => /\ _session_id'[p] = 0
                                   /\ _pending_server_update'[p] = 0
             /\ p # 0 => /\ pstate'[p] = "DISCONNECTING"
                         /\ \A i \in PlayersOf(_player_dict'[n], g) :
                               _player_dict'[n][i].p # p]_vars

\* C37: whenever no task is in the middle of a step, so that another task may
\* run, the ready flag of every node is set exactly if its state is READY
C37_ReadyFlagIsReadyState ==
    ~running => \A n \in Nodes : ready[n] <=> state[n] = "READY"

\* the host's data messages passed to Node.send() of node n so far
SentData(n) ==
    {wire[n][i].m : i \in {j \in 1..Len(wire[n]) :
                              /\ wire[n][j].ev = "send" /\ wire[n][j].by = "send"
                              /\ wire[n][j].m.op = "data"}}
\* the places in the history of node n where message m is written to a socket
WritesOf(n, m) == {j \in 1..Len(wire[n]) : wire[n][j].ev = "write" /\ wire[n][j].m = m}

\* C38: every data message passed to Node.send() has been written to a socket
\* at most once, and while the node is not shut down it has been written or
\* is in the outbound queue
C38_NoLossNoDuplicate ==
    \A n \in Nodes : \A m \in SentData(n) :
        /\ Cardinality(WritesOf(n, m)) <= 1
        /\ _is_shutdown[n] = FALSE => (WritesOf(n, m) # {} \/ m \in Range(_queue[n]))

\* a connect() of node n is replaying the outbound queue
InFlush(n) ==
    \E t \in Tasks : t.kind = "connect" /\ t.n = n /\ t.pc \in {"flush", "spin"}

\* C39: a connect() that has begun to replay the queue reaches the point
\* where the queue is cleared and the node is READY
C39_FlushTerminates ==
    \A n \in Nodes : InFlush(n) ~> (state[n] = "READY" /\ _queue[n] = <<>>)

\* the receive loops of node n that have not ended: the listener tasks that
\* are ready or wait for a frame (each has its own id)
Loops(n) == {t \in Tasks : t.kind = "listener" /\ t.n = n}
\* the _handle_op tasks of node n that are still to run, oldest first
PendingOps(q, n) == SelectSeq(q, LAMBDA t : t.kind = "_handle_op" /\ t.n = n)
\* the receive loop of node n takes a text frame with a known op
FrameTaken(n) ==
    /\ TaskStep("listener", "receive") /\ Cur.n = n /\ Cur.res = "TEXT"
    /\ Cur.f.op \in LavalinkIncomingOp

\* C40: a node never has two receive loops; the frame a loop takes is queued
\* behind the frames taken before it, the frame handed to dispatch is the
\* oldest one queued, and no other step touches that queue
C40_OneLoopFramesInOrder ==
    [][\A n \in Nodes :
          LET before == PendingOps(runq, n)
              after == PendingOps(runq', n) IN
          /\ Cardinality(Loops(n)) <= 1
          /\ Cardinality(Loops(n)') <= 1
          /\ IF FrameTaken(n)
             THEN after = Append(before, [Task("_handle_op", n, "start") EXCEPT !.f = Cur.f])
             ELSE IF TaskStep("_handle_op", "start") /\ Cur.n = n
             THEN /\ after = Tail(before)
                  /\ \E c \in calls' : /\ c.call = "dispatch" /\ c.n = n
                                       /\ c.via = Cur.f.op /\ c.g = Cur.f.g
             ELSE after = before]_vars
\* a reconnect and a connect() of the host have both returned on the node,
\* one receive loop waits for a frame, and both frames have been dispatched
C40_Witness ==
    /\ \E c \in calls : c.call = "connect" /\ c.n = 1 /\ c.via = "host" /\ c.res = "ok"
    /\ \E c \in calls : c.call = "connect" /\ c.n = 1 /\ c.via = "reconnect" /\ c.res = "ok"
    /\ Cardinality(Loops(1)) = 1
    /\ \E c \in calls : c.call = "dispatch" /\ c.via = "stats"
    /\ \E c \in calls : c.call = "dispatch" /\ c.via = "playerUpdate"

====
